---------------------------- MODULE Spec2Model ----------------------------
(***************************************************************************)
(* State-machine model of the SSD1306 OLED display C library               *)
(* (ssd1306_driver.c with the STM32 ssd1306_config.c transport).           *)
(*                                                                         *)
(* One display session (ssd1306_t) is driven by an arbitrary sequence of   *)
(* public API calls.  Every action is one whole API call; the bytes the    *)
(* call hands to ssd1306_i2c_write are recorded in `bus`.                  *)
(***************************************************************************)
EXTENDS Integers, Sequences, FiniteSets, TLC

VARIABLES
    ssd1306,    \* the ssd1306_t structure of the session
    pre,        \* the ssd1306_t structure as it was when the last call began
    op,         \* the last API call: [name, args, failAt]
    status,     \* the ssd1306_status_t the last call returned
    bus,        \* the ssd1306_i2c_write invocations of the last call, in order
    left,       \* number of API calls the client will still make
    gddram      \* the display RAM of the device and its write pointer

vars == <<ssd1306, pre, op, status, bus, left, gddram>>

(***************************************************************************)
(* Bounds of the model.                                                    *)
(***************************************************************************)
\* Length of the call sequences over the whole public API (Spec).
MaxCalls == 2
\* Length of the call sequences over the core operations (SpecCore).
MaxCoreCalls == 3
\* Number of iterations after which a drawing loop is taken not to end.
LoopBound == 300
\* Length of the call sequences after initialization (SpecDevice).
MaxDeviceCalls == 3

(***************************************************************************)
(* Program constants (ssd1306_driver.h / ssd1306_driver.c).                *)
(***************************************************************************)
SSD1306_PXL_WIDTH   == 128
SSD1306_PXL_HEIGHT  == 64
SSD1306_BUFFER_SIZE == (SSD1306_PXL_WIDTH * SSD1306_PXL_HEIGHT) \div 8

SSD1306_OK           == 0
SSD1306_NOINIT       == 1
SSD1306_WRONG_PARAMS == 2
SSD1306_COMM_ERROR   == 3
SSD1306_STATUS_COUNT == 4
\* Not a status a call returns: marks a call whose loop did not end.
NoReturn == SSD1306_STATUS_COUNT

SSD1306_COLOR_BLACK == 0
SSD1306_COLOR_WHITE == 1

RIGHT_HORIZONTAL_SCROLL          == 0
LEFT_HORIZONTAL_SCROLL           == 1
VERTICAL_RIGHT_HORIZONTAL_SCROLL == 2
VERTICAL_LEFT_HORIZONTAL_SCROLL  == 3

SSD1306_CMD_SET_MEMORY_ADDRESSING_MODE       == 32   \* 0x20
SSD1306_CMD_SET_COLUMN_ADDRESS               == 33   \* 0x21
SSD1306_CMD_SET_PAGE_ADDRESS                 == 34   \* 0x22
SSD1306_SUBCMD_MEM_ADDR_MODE_HAM             == 0    \* 0x00
SSD1306_CMD_SEGMENT_REMAP_COL127_SEG0        == 161  \* 0xA1
SSD1306_CMD_SET_MULTIPLEX_RATIO              == 168  \* 0xA8
SSD1306_CMD_COM_SCAN_DIRECTION_REMAPPED      == 200  \* 0xC8
SSD1306_CMD_SET_DISPLAY_OFFSET               == 211  \* 0xD3
SSD1306_CMD_SET_COM_PINS_HW_CONFIG           == 218  \* 0xDA
SSD1306_CMD_SET_DIS_CLK_OSC_FREQ             == 213  \* 0xD5
SSD1306_CMD_SET_PRECHARGE_PERIOD             == 217  \* 0xD9
SSD1306_CMD_SET_VCOMH_DESELECT_LEVEL         == 219  \* 0xDB
SSD1306_CMD_RIGHT_HORIZONTAL_SCROLL          == 38   \* 0x26
SSD1306_CMD_LEFT_HORIZONTAL_SCROLL           == 39   \* 0x27
SSD1306_CMD_VERTICAL_RIGHT_HORIZONTAL_SCROLL == 41   \* 0x29
SSD1306_CMD_VERTICAL_LEFT_HORIZONTAL_SCROLL  == 42   \* 0x2A
SSD1306_CMD_DEACTIVATE_SCROLL                == 46   \* 0x2E
SSD1306_CMD_ACTIVATE_SCROLL                  == 47   \* 0x2F
SSD1306_CMD_SETCONTRAST                      == 129  \* 0x81
SSD1306_CMD_CHARGE_PUMP_SETTING              == 141  \* 0x8D
SSD1306_CMD_RESUMETORAM                      == 164  \* 0xA4
SSD1306_CMD_NORMALDISPLAY                    == 166  \* 0xA6
SSD1306_CMD_INVERTDISPLAY                    == 167  \* 0xA7
SSD1306_CMD_DISPLAYOFF                       == 174  \* 0xAE
SSD1306_CMD_DISPLAYON                        == 175  \* 0xAF
SSD1306_SUBCMD_DISABLE_CHARGE_PUMP           == 16   \* 0x10
SSD1306_SUBCMD_ENABLE_CHARGE_PUMP            == 20   \* 0x14

SSD1306_CMD_CONTROL_BYTE       == 0    \* 0x00
SSD1306_DATA_CONTROL_BYTE      == 64   \* 0x40
SSD1306_DATA_WRITE_BUFFER_SIZE == 129
SSD1306_NUM_PAGES              == 8

(***************************************************************************)
(* Machine arithmetic.                                                     *)
(***************************************************************************)
\* Conversion of an int to uint8_t (argument passing, uint8_t assignment).
U8(v) == v % 256

\* 1 << k for k in 0..15.
Pow2(k) == CASE k = 0 -> 1   [] k = 1 -> 2    [] k = 2 -> 4    [] k = 3 -> 8
             [] k = 4 -> 16  [] k = 5 -> 32   [] k = 6 -> 64   [] k = 7 -> 128
             [] k = 8 -> 256 [] k = 9 -> 512  [] k = 10 -> 1024 [] k = 11 -> 2048
             [] k = 12 -> 4096 [] k = 13 -> 8192 [] k = 14 -> 16384
             [] k = 15 -> 32768

\* (b >> k) & 1: bit k of b.
Bit(b, k) == (b \div Pow2(k)) % 2

\* ABS(x) ((x) > 0 ? (x) : -(x))
ABS(x) == IF x > 0 THEN x ELSE -x

\* !color of the C source: 1 for 0, 0 for every other value.
NotColor(color) == IF color = 0 THEN 1 ELSE 0

(***************************************************************************)
(* The calling context threaded through the driver functions: the session, *)
(* the ssd1306_i2c_write invocations made so far by the running API call,  *)
(* the index of the HAL transmit that fails (0: none), and the status      *)
(* returned by the function that ran last.                                 *)
(***************************************************************************)
Ctx(s, failAt) == [s |-> s, bus |-> <<>>, failAt |-> failAt,
                   status |-> SSD1306_OK]

Ret(c, st) == [c EXCEPT !.status = st]

(***************************************************************************)
(* ssd1306_i2c_write of config/STM32/ssd1306_config.c: channel 0 is routed *)
(* to HAL_I2C_Master_Transmit, whose outcome is the environment's choice;  *)
(* any other channel is rejected.                                          *)
(***************************************************************************)
HalOk(c) == Len(c.bus) + 1 # c.failAt

ssd1306_i2c_write(c, channel, addr, data) ==
    LET st == IF channel = 0
              THEN (IF HalOk(c) THEN SSD1306_OK ELSE SSD1306_COMM_ERROR)
              ELSE SSD1306_WRONG_PARAMS
    IN  [c EXCEPT !.bus = Append(@, [channel |-> channel, addr |-> addr,
                                     data |-> data, status |-> st]),
                  !.status = st]

(***************************************************************************)
(* The transport of config/Arduino/ssd1306_config.cpp.  The Wire library   *)
(* buffers at most 32 bytes, so i2c_write_arduino sends data_ptr in bursts *)
(* of the control byte data_ptr[0] and up to 31 further bytes.  A burst is *)
(* logged like a transmission; the result of Wire.endTransmission is not   *)
(* read, so every burst is reported as done.                               *)
(***************************************************************************)
WIRE_CHUNK_SIZE == 31

\* The loop "while (proc_bytes < data_size)", from proc_bytes on.
RECURSIVE WireLoop(_, _, _, _)
WireLoop(c, addr, data_ptr, proc_bytes) ==
    IF ~(proc_bytes < Len(data_ptr)) THEN c
    ELSE LET chunk_size ==
                 U8(IF Len(data_ptr) - proc_bytes > WIRE_CHUNK_SIZE
                    THEN WIRE_CHUNK_SIZE ELSE Len(data_ptr) - proc_bytes)
             burst == <<data_ptr[1]>>
                      \o SubSeq(data_ptr, proc_bytes + 1,
                                proc_bytes + chunk_size)
         IN  WireLoop([c EXCEPT !.bus = Append(@,
                                   [channel |-> 0, addr |-> addr,
                                    data |-> burst, status |-> SSD1306_OK])],
                      addr, data_ptr, proc_bytes + chunk_size)

\* Variant: a chunking that starts at the control byte.
i2c_write_arduino_from_zero(c, addr, data_ptr) ==
    WireLoop(c, addr, data_ptr, 0)

i2c_write_arduino(c, addr, data_ptr) ==
    WireLoop(c, addr, data_ptr, 1)

\* ssd1306_i2c_write of the Arduino configuration.
arduino_ssd1306_i2c_write(c, channel, addr, data) ==
    IF channel = 0
    THEN Ret(i2c_write_arduino(c, addr, data), SSD1306_OK)
    ELSE Ret(c, SSD1306_WRONG_PARAMS)

(***************************************************************************)
(* Private functions of the command protocol layer.                        *)
(***************************************************************************)
ssd1306_cmd_write(c, cmd) ==
    IF c.s.initialized = FALSE
    THEN Ret(c, SSD1306_NOINIT)
    ELSE ssd1306_i2c_write(c, c.s.i2c_channel, c.s.i2c_addr,
                           <<SSD1306_CMD_CONTROL_BYTE, cmd>>)

\* Variant: a burst write that does not test the initialized flag.
ssd1306_cmd_write_multi_unchecked(c, cmd_list) ==
    ssd1306_i2c_write(c, c.s.i2c_channel, c.s.i2c_addr, cmd_list)

ssd1306_cmd_write_multi(c, cmd_list) ==
    IF c.s.initialized = FALSE
    THEN Ret(c, SSD1306_NOINIT)
    ELSE ssd1306_i2c_write(c, c.s.i2c_channel, c.s.i2c_addr, cmd_list)

\* Variant: a data write framed with the command control byte.
ssd1306_data_write_cmd_byte(c, data_ptr) ==
    IF c.s.initialized = FALSE
    THEN Ret(c, SSD1306_NOINIT)
    ELSE IF Len(data_ptr) >= SSD1306_DATA_WRITE_BUFFER_SIZE
    THEN Ret(c, SSD1306_WRONG_PARAMS)
    ELSE ssd1306_i2c_write(c, c.s.i2c_channel, c.s.i2c_addr,
                           <<SSD1306_CMD_CONTROL_BYTE>> \o data_ptr)

\* Variant: a data write whose bound excludes a full display row.
ssd1306_data_write_row_excluded(c, data_ptr) ==
    IF c.s.initialized = FALSE
    THEN Ret(c, SSD1306_NOINIT)
    ELSE IF Len(data_ptr) >= SSD1306_PXL_WIDTH
    THEN Ret(c, SSD1306_WRONG_PARAMS)
    ELSE ssd1306_i2c_write(c, c.s.i2c_channel, c.s.i2c_addr,
                           <<SSD1306_DATA_CONTROL_BYTE>> \o data_ptr)

\* data_ptr is the byte sequence of length data_size.
ssd1306_data_write(c, data_ptr) ==
    IF c.s.initialized = FALSE
    THEN Ret(c, SSD1306_NOINIT)
    ELSE IF Len(data_ptr) >= SSD1306_DATA_WRITE_BUFFER_SIZE
    THEN Ret(c, SSD1306_WRONG_PARAMS)
    ELSE ssd1306_i2c_write(c, c.s.i2c_channel, c.s.i2c_addr,
                           <<SSD1306_DATA_CONTROL_BYTE>> \o data_ptr)

(***************************************************************************)
(* Fundamental commands.                                                   *)
(***************************************************************************)
ssd1306_display_on(c) ==
    ssd1306_cmd_write_multi(c, <<SSD1306_CMD_CONTROL_BYTE,
                                 SSD1306_CMD_CHARGE_PUMP_SETTING,
                                 SSD1306_SUBCMD_ENABLE_CHARGE_PUMP,
                                 SSD1306_CMD_DISPLAYON>>)

ssd1306_display_off(c) ==
    ssd1306_cmd_write_multi(c, <<SSD1306_CMD_CONTROL_BYTE,
                                 SSD1306_CMD_CHARGE_PUMP_SETTING,
                                 SSD1306_SUBCMD_DISABLE_CHARGE_PUMP,
                                 SSD1306_CMD_DISPLAYOFF>>)

\* Variant: the contrast command and its value sent as two transmissions.
ssd1306_set_contrast_two_frames(c, contrast_value) ==
    LET c1 == ssd1306_cmd_write(c, SSD1306_CMD_SETCONTRAST)
    IN  IF c1.status # SSD1306_OK THEN c1
        ELSE ssd1306_cmd_write(c1, contrast_value)

ssd1306_set_contrast(c, contrast_value) ==
    ssd1306_cmd_write_multi(c, <<SSD1306_CMD_CONTROL_BYTE,
                                 SSD1306_CMD_SETCONTRAST,
                                 contrast_value>>)

\* Variant: an inversion whose flag is set before the command is sent.
ssd1306_set_inversion_eager(c, is_inverted) ==
    LET c1 == ssd1306_cmd_write_multi(c,
                  <<SSD1306_CMD_CONTROL_BYTE,
                    IF is_inverted THEN SSD1306_CMD_INVERTDISPLAY
                                   ELSE SSD1306_CMD_NORMALDISPLAY>>)
    IN  [c1 EXCEPT !.s.inverted = is_inverted]

ssd1306_set_inversion(c, is_inverted) ==
    LET c1 == ssd1306_cmd_write_multi(c,
                  <<SSD1306_CMD_CONTROL_BYTE,
                    IF is_inverted THEN SSD1306_CMD_INVERTDISPLAY
                                   ELSE SSD1306_CMD_NORMALDISPLAY>>)
    IN  IF c1.status # SSD1306_OK THEN c1
        ELSE [c1 EXCEPT !.s.inverted = is_inverted, !.status = SSD1306_OK]

(***************************************************************************)
(* Scrolling.                                                              *)
(***************************************************************************)
\* Variant: the scrolling flag recorded whatever the transmission returned.
ssd1306_set_scroll_status_eager(c, is_scrolling) ==
    LET c1 == ssd1306_cmd_write_multi(c,
                  <<SSD1306_CMD_CONTROL_BYTE,
                    IF is_scrolling THEN SSD1306_CMD_ACTIVATE_SCROLL
                                    ELSE SSD1306_CMD_DEACTIVATE_SCROLL>>)
    IN  [c1 EXCEPT !.s.scrolling = is_scrolling]

ssd1306_set_scroll_status(c, is_scrolling) ==
    LET c1 == ssd1306_cmd_write_multi(c,
                  <<SSD1306_CMD_CONTROL_BYTE,
                    IF is_scrolling THEN SSD1306_CMD_ACTIVATE_SCROLL
                                    ELSE SSD1306_CMD_DEACTIVATE_SCROLL>>)
    IN  IF c1.status # SSD1306_OK THEN c1
        ELSE [c1 EXCEPT !.s.scrolling = is_scrolling, !.status = SSD1306_OK]

ScrollCmd(type) ==
    CASE type = RIGHT_HORIZONTAL_SCROLL ->
             SSD1306_CMD_RIGHT_HORIZONTAL_SCROLL
      [] type = LEFT_HORIZONTAL_SCROLL ->
             SSD1306_CMD_LEFT_HORIZONTAL_SCROLL
      [] type = VERTICAL_RIGHT_HORIZONTAL_SCROLL ->
             SSD1306_CMD_VERTICAL_RIGHT_HORIZONTAL_SCROLL
      [] type = VERTICAL_LEFT_HORIZONTAL_SCROLL ->
             SSD1306_CMD_VERTICAL_LEFT_HORIZONTAL_SCROLL

ssd1306_scroll(c, type, start_page, end_page, interval) ==
    IF type \notin {RIGHT_HORIZONTAL_SCROLL, LEFT_HORIZONTAL_SCROLL,
                    VERTICAL_RIGHT_HORIZONTAL_SCROLL,
                    VERTICAL_LEFT_HORIZONTAL_SCROLL}
    THEN Ret(c, SSD1306_WRONG_PARAMS)
    ELSE
    LET c1 == ssd1306_cmd_write_multi(c,
                  <<SSD1306_CMD_CONTROL_BYTE, ScrollCmd(type), 0,
                    start_page, interval, end_page>>)
        horizontal == type \in {RIGHT_HORIZONTAL_SCROLL,
                                LEFT_HORIZONTAL_SCROLL}
        \* first trailing command: dummy byte 0x00, or vertical offset 0x01
        c2 == IF c1.status # SSD1306_OK THEN c1
              ELSE ssd1306_cmd_write(c1, IF horizontal THEN 0 ELSE 1)
        \* second trailing command (horizontal types only): dummy byte 0xFF
        c3 == IF c2.status # SSD1306_OK \/ ~horizontal THEN c2
              ELSE ssd1306_cmd_write(c2, 255)
    IN  IF c3.status # SSD1306_OK THEN c3
        ELSE ssd1306_set_scroll_status(c3, TRUE)

(***************************************************************************)
(* Drawing: cursor, fill, pixel.                                           *)
(***************************************************************************)
\* Variant: a cursor move that accepts x = 128 and y = 64.
ssd1306_goto_xy_inclusive(c, x, y) ==
    IF x > SSD1306_PXL_WIDTH \/ y > SSD1306_PXL_HEIGHT
    THEN Ret(c, SSD1306_WRONG_PARAMS)
    ELSE [c EXCEPT !.s.x_pos = x, !.s.y_pos = y, !.status = SSD1306_OK]

ssd1306_goto_xy(c, x, y) ==
    IF x >= SSD1306_PXL_WIDTH \/ y >= SSD1306_PXL_HEIGHT
    THEN Ret(c, SSD1306_WRONG_PARAMS)
    ELSE [c EXCEPT !.s.x_pos = x, !.s.y_pos = y, !.status = SSD1306_OK]

\* Variant: a fill that does not consult the inverted flag.
ssd1306_draw_fill_no_inversion(c, color) ==
    IF color \notin {SSD1306_COLOR_BLACK, SSD1306_COLOR_WHITE}
    THEN Ret(c, SSD1306_WRONG_PARAMS)
    ELSE
    LET pxl_color == IF color = SSD1306_COLOR_BLACK THEN 0 ELSE 255
    IN  [c EXCEPT !.s.buffer = [i \in 0..(SSD1306_BUFFER_SIZE - 1) |->
                                    pxl_color],
                  !.status = SSD1306_OK]

ssd1306_draw_fill(c, color) ==
    IF color \notin {SSD1306_COLOR_BLACK, SSD1306_COLOR_WHITE}
    THEN Ret(c, SSD1306_WRONG_PARAMS)
    ELSE
    LET pxl_color == IF color = SSD1306_COLOR_BLACK
                     THEN (IF c.s.inverted THEN 255 ELSE 0)
                     ELSE (IF c.s.inverted THEN 0 ELSE 255)
    IN  [c EXCEPT !.s.buffer = [i \in 0..(SSD1306_BUFFER_SIZE - 1) |->
                                    pxl_color],
                  !.status = SSD1306_OK]

\* Variant: a pixel write that does not consult the inverted flag.
ssd1306_draw_pixel_no_inversion(c, x, y, color) ==
    IF x >= SSD1306_PXL_WIDTH \/ y >= SSD1306_PXL_HEIGHT
    THEN Ret(c, SSD1306_OK)
    ELSE
    LET idx == x + (y \div 8) * SSD1306_PXL_WIDTH
        k   == y % 8
        b   == c.s.buffer[idx]
    IN  CASE color = SSD1306_COLOR_WHITE ->
               [c EXCEPT !.s.buffer[idx] =
                             IF Bit(b, k) = 1 THEN b ELSE b + Pow2(k),
                         !.status = SSD1306_OK]
          [] color = SSD1306_COLOR_BLACK ->
               [c EXCEPT !.s.buffer[idx] =
                             IF Bit(b, k) = 1 THEN b - Pow2(k) ELSE b,
                         !.status = SSD1306_OK]
          [] OTHER -> Ret(c, SSD1306_WRONG_PARAMS)

ssd1306_draw_pixel(c, x, y, color) ==
    IF x >= SSD1306_PXL_WIDTH \/ y >= SSD1306_PXL_HEIGHT
    THEN Ret(c, SSD1306_OK)
    ELSE
    LET pxl_color == IF c.s.inverted THEN NotColor(color) ELSE color
        idx       == x + (y \div 8) * SSD1306_PXL_WIDTH
        k         == y % 8
        b         == c.s.buffer[idx]
    IN  CASE pxl_color = SSD1306_COLOR_WHITE ->
               [c EXCEPT !.s.buffer[idx] =
                             IF Bit(b, k) = 1 THEN b ELSE b + Pow2(k),
                         !.status = SSD1306_OK]
          [] pxl_color = SSD1306_COLOR_BLACK ->
               [c EXCEPT !.s.buffer[idx] =
                             IF Bit(b, k) = 1 THEN b - Pow2(k) ELSE b,
                         !.status = SSD1306_OK]
          [] OTHER -> Ret(c, SSD1306_WRONG_PARAMS)

(***************************************************************************)
(* Fonts.  ssd1306_fonts.c is not part of the sources at hand: the three   *)
(* fonts are described by their cell size (FONT_7X10, FONT_11X18,          *)
(* FONT_16X26) and the glyph tables are stand-in data: one storage unit    *)
(* per glyph row, most significant bit first, padded to 8 or 16 bits.      *)
(***************************************************************************)
FONT_7X10  == 0
FONT_11X18 == 1
FONT_16X26 == 2

\* Stand-in for the read-only glyph tables: entry idx of the table.
font_map(font_name, idx) ==
    CASE font_name = FONT_7X10  -> ((idx * 37 + 85) % 128) * 2
      [] font_name = FONT_11X18 -> ((idx * 517 + 1365) % 2048) * 32
      [] font_name = FONT_16X26 -> (idx * 4099 + 21845) % 65536

get_font_ptr(font_name) ==
    CASE font_name = FONT_7X10  -> [font_width |-> 7,  font_height |-> 10]
      [] font_name = FONT_11X18 -> [font_width |-> 11, font_height |-> 18]
      [] font_name = FONT_16X26 -> [font_width |-> 16, font_height |-> 26]

(***************************************************************************)
(* Drawing: characters, strings, integers.                                 *)
(***************************************************************************)
\* uint16_t char_line of glyph row i of character ch.
CharLine(font_name, ch, i) ==
    LET font == get_font_ptr(font_name)
        v    == font_map(font_name, (ch - 32) * font.font_height + i)
    IN  IF font.font_width <= 8 THEN (v * 256) % 65536 ELSE v

\* Variant: a transparent glyph, whose background pixels are not drawn.
RECURSIVE CharColLoop_transparent(_, _, _, _, _, _)
CharColLoop_transparent(c, char_line, font_width, i, j, color) ==
    IF ~(j < font_width) THEN Ret(c, SSD1306_OK)
    ELSE LET c1 == IF Bit(char_line, 15 - j) = 1
                   THEN ssd1306_draw_pixel(c, U8(c.s.x_pos + j),
                                           U8(c.s.y_pos + i), color)
                   ELSE Ret(c, SSD1306_OK)
         IN  IF c1.status # SSD1306_OK THEN c1
             ELSE CharColLoop_transparent(c1, char_line, font_width, i,
                                          j + 1, color)

\* The inner loop over the columns j of glyph row i.
RECURSIVE CharColLoop(_, _, _, _, _, _)
CharColLoop(c, char_line, font_width, i, j, color) ==
    IF ~(j < font_width) THEN Ret(c, SSD1306_OK)
    ELSE LET pixel_color == IF Bit(char_line, 15 - j) = 1
                            THEN color ELSE NotColor(color)
             c1 == ssd1306_draw_pixel(c, U8(c.s.x_pos + j),
                                      U8(c.s.y_pos + i), pixel_color)
         IN  IF c1.status # SSD1306_OK THEN c1
             ELSE CharColLoop(c1, char_line, font_width, i, j + 1, color)

\* The outer loop over the glyph rows i.
RECURSIVE CharRowLoop(_, _, _, _, _)
CharRowLoop(c, ch, font_name, i, color) ==
    LET font == get_font_ptr(font_name) IN
    IF ~(i < font.font_height) THEN Ret(c, SSD1306_OK)
    ELSE LET c1 == CharColLoop(c, CharLine(font_name, ch, i),
                               font.font_width, i, 0, color)
         IN  IF c1.status # SSD1306_OK THEN c1
             ELSE CharRowLoop(c1, ch, font_name, i + 1, color)

\* Variant: a character whose cursor advance wraps at the display width.
ssd1306_draw_char_wrapping(c, ch, font_name, color) ==
    LET c1 == CharRowLoop(c, ch, font_name, 0, color)
    IN  IF c1.status # SSD1306_OK THEN c1
        ELSE [c1 EXCEPT !.s.x_pos =
                            (@ + get_font_ptr(font_name).font_width)
                                % SSD1306_PXL_WIDTH,
                        !.status = SSD1306_OK]

ssd1306_draw_char(c, ch, font_name, color) ==
    LET c1 == CharRowLoop(c, ch, font_name, 0, color)
    IN  IF c1.status # SSD1306_OK THEN c1
        ELSE [c1 EXCEPT !.s.x_pos =
                            U8(@ + get_font_ptr(font_name).font_width),
                        !.status = SSD1306_OK]

\* str is the sequence of the str_len characters (their codes).
RECURSIVE StrLoop(_, _, _, _, _)
StrLoop(c, str, i, font_name, color) ==
    IF ~(i < Len(str)) THEN Ret(c, SSD1306_OK)
    ELSE LET c1 == ssd1306_draw_char(c, str[i + 1], font_name, color)
         IN  IF c1.status # SSD1306_OK THEN c1
             ELSE StrLoop(c1, str, i + 1, font_name, color)

ssd1306_draw_str(c, str, font_name, color) ==
    StrLoop(c, str, 0, font_name, color)

\* C integer division and remainder (truncation towards zero).
CDiv(a, b) == IF a >= 0 \/ a % b = 0 THEN a \div b ELSE (a \div b) + 1
CRem(a, b) == a - b * CDiv(a, b)

\* ABS(num) in int32_t arithmetic: -INT32_MIN wraps to INT32_MIN in two's
\* complement.
INT32_MIN == -2147483647 - 1
Abs32(num) == IF num = INT32_MIN THEN INT32_MIN ELSE ABS(num)

\* The digit loop: the characters stored in str_buf[0..i-1], least
\* significant digit first.
RECURSIVE DigitLoop(_, _, _)
DigitLoop(num_abs, base, buf) ==
    IF num_abs = 0 THEN buf
    ELSE LET rem == CRem(num_abs, base)
             ch  == IF rem > 9 THEN (rem - 10) + 65 ELSE rem + 48
         IN  DigitLoop(CDiv(num_abs, base), base, Append(buf, ch))

\* The in-place reversal of str_buf[0..i-1].
Reverse(buf) == [k \in 1..Len(buf) |-> buf[Len(buf) + 1 - k]]

\* The content of str_buf (up to its terminating NUL) that is drawn.
IntToStr(num, base) ==
    IF num = 0 THEN <<48>>
    ELSE LET is_negative == num < 0 /\ base = 10
             digits == DigitLoop(Abs32(num), base, <<>>)
         IN  Reverse(IF is_negative THEN Append(digits, 45) ELSE digits)

\* Variant: an integer drawing that accepts the bases up to 36.
ssd1306_draw_int_base36(c, num, base, font_name, color) ==
    IF base < 2 \/ base > 36 THEN Ret(c, SSD1306_WRONG_PARAMS)
    ELSE ssd1306_draw_str(c, IntToStr(num, base), font_name, color)

ssd1306_draw_int(c, num, base, font_name, color) ==
    IF base < 2 \/ base > 32 THEN Ret(c, SSD1306_WRONG_PARAMS)
    ELSE ssd1306_draw_str(c, IntToStr(num, base), font_name, color)

(***************************************************************************)
(* Drawing: lines and shapes.  Coordinates are uint8_t parameters: the     *)
(* callers' int expressions are converted with U8.                         *)
(***************************************************************************)
\* One iteration of the "while (true)" of ssd1306_draw_line.  st holds the
\* context c, the running point (x0, y0), err, and whether the loop was
\* left; k holds the values the loop does not change.
\* Variant: a line loop that tests for the end point before it draws the
\* pixel.
LineStep_end_first(st, k) ==
    IF st.x0 = k.x1 /\ st.y0 = k.y1
    THEN [st EXCEPT !.c = Ret(st.c, SSD1306_OK), !.done = TRUE]
    ELSE
    LET c1 == ssd1306_draw_pixel(st.c, st.x0, st.y0, k.color) IN
    IF c1.status # SSD1306_OK THEN [st EXCEPT !.c = c1, !.done = TRUE]
    ELSE LET e2   == st.err * 2
             errx == IF e2 >= k.dy THEN st.err + k.dy ELSE st.err
             nx0  == IF e2 >= k.dy THEN U8(st.x0 + k.sx) ELSE st.x0
             erry == IF e2 <= k.dx THEN errx + k.dx ELSE errx
             ny0  == IF e2 <= k.dx THEN U8(st.y0 + k.sy) ELSE st.y0
         IN  [c |-> c1, x0 |-> nx0, y0 |-> ny0, err |-> erry, done |-> FALSE]

LineStep(st, k) ==
    LET c1 == ssd1306_draw_pixel(st.c, st.x0, st.y0, k.color) IN
    IF c1.status # SSD1306_OK THEN [st EXCEPT !.c = c1, !.done = TRUE]
    ELSE IF st.x0 = k.x1 /\ st.y0 = k.y1
    THEN [st EXCEPT !.c = Ret(c1, SSD1306_OK), !.done = TRUE]
    ELSE LET e2   == st.err * 2
             errx == IF e2 >= k.dy THEN st.err + k.dy ELSE st.err
             nx0  == IF e2 >= k.dy THEN U8(st.x0 + k.sx) ELSE st.x0
             erry == IF e2 <= k.dx THEN errx + k.dx ELSE errx
             ny0  == IF e2 <= k.dx THEN U8(st.y0 + k.sy) ELSE st.y0
         IN  [c |-> c1, x0 |-> nx0, y0 |-> ny0, err |-> erry, done |-> FALSE]

\* Up to n iterations of the loop, stopping when it is left.
RECURSIVE LineRun(_, _, _)
LineRun(st, k, n) ==
    IF st.done \/ n = 0 THEN st
    ELSE IF n = 1 THEN LineStep(st, k)
    ELSE LineRun(LineRun(st, k, n \div 2), k, n - (n \div 2))

ssd1306_draw_line(c, x0, y0, x1, y1, color) ==
    LET dx == ABS(x1 - x0)
        dy == -ABS(y1 - y0)
        k  == [x1 |-> x1, y1 |-> y1, color |-> color,
               dx |-> dx, sx |-> IF x0 < x1 THEN 1 ELSE -1,
               dy |-> dy, sy |-> IF y0 < y1 THEN 1 ELSE -1]
        r  == LineRun([c |-> c, x0 |-> x0, y0 |-> y0, err |-> dx + dy,
                       done |-> FALSE], k, LoopBound)
    IN  IF r.done THEN r.c ELSE Ret(r.c, NoReturn)

\* Variant: a rectangle whose bottom line is drawn one row too high.
ssd1306_draw_rect_short(c, x, y, w, h, color) ==
    LET c1 == ssd1306_draw_line(c, x, y, U8(x + w), y, color)
        c2 == IF c1.status # SSD1306_OK THEN c1
              ELSE ssd1306_draw_line(c1, x, U8(y + h - 1), U8(x + w),
                                     U8(y + h - 1), color)
        c3 == IF c2.status # SSD1306_OK THEN c2
              ELSE ssd1306_draw_line(c2, x, y, x, U8(y + h), color)
    IN  IF c3.status # SSD1306_OK THEN c3
        ELSE ssd1306_draw_line(c3, U8(x + w), y, U8(x + w), U8(y + h), color)

ssd1306_draw_rect(c, x, y, w, h, color) ==
    LET c1 == ssd1306_draw_line(c, x, y, U8(x + w), y, color)
        c2 == IF c1.status # SSD1306_OK THEN c1
              ELSE ssd1306_draw_line(c1, x, U8(y + h), U8(x + w), U8(y + h),
                                     color)
        c3 == IF c2.status # SSD1306_OK THEN c2
              ELSE ssd1306_draw_line(c2, x, y, x, U8(y + h), color)
    IN  IF c3.status # SSD1306_OK THEN c3
        ELSE ssd1306_draw_line(c3, U8(x + w), y, U8(x + w), U8(y + h), color)

\* One iteration of "for (uint8_t i = 0; i <= h; i++)" of
\* ssd1306_draw_filled_rect, its condition included.
FilledRectStep(st, k) ==
    IF ~(st.i <= k.h)
    THEN [st EXCEPT !.c = Ret(st.c, SSD1306_OK), !.done = TRUE]
    ELSE LET c1 == ssd1306_draw_line(st.c, k.x, U8(k.y + st.i),
                                     U8(k.x + k.w), U8(k.y + st.i), k.color)
         IN  IF c1.status # SSD1306_OK
             THEN [st EXCEPT !.c = c1, !.done = TRUE]
             ELSE [c |-> c1, i |-> U8(st.i + 1), done |-> FALSE]

RECURSIVE FilledRectRun(_, _, _)
FilledRectRun(st, k, n) ==
    IF st.done \/ n = 0 THEN st
    ELSE IF n = 1 THEN FilledRectStep(st, k)
    ELSE FilledRectRun(FilledRectRun(st, k, n \div 2), k, n - (n \div 2))

ssd1306_draw_filled_rect(c, x, y, w, h, color) ==
    LET k == [x |-> x, y |-> y, w |-> w, h |-> h, color |-> color]
        r == FilledRectRun([c |-> c, i |-> 0, done |-> FALSE], k, LoopBound)
    IN  IF r.done THEN r.c ELSE Ret(r.c, NoReturn)

\* One step of the midpoint iteration: the state (x, y, err) after
\* "rc = err; if (rc > x) err += ++x*2+1; if (rc <= y) err += ++y*2+1;".
CircleStep(x, y, err) ==
    LET rc   == err
        x1   == IF rc > x THEN x + 1 ELSE x
        err1 == IF rc > x THEN err + (x1 * 2 + 1) ELSE err
        y1   == IF rc <= y THEN y + 1 ELSE y
        err2 == IF rc <= y THEN err1 + (y1 * 2 + 1) ELSE err1
    IN  [x |-> x1, y |-> y1, err |-> err2]

RECURSIVE CircleLoop(_, _, _, _, _, _, _)
CircleLoop(c, xc, yc, x, y, err, color) ==
    LET c1 == ssd1306_draw_pixel(c, U8(xc - x), U8(yc + y), color)
        c2 == IF c1.status # SSD1306_OK THEN c1
              ELSE ssd1306_draw_pixel(c1, U8(xc - y), U8(yc - x), color)
        c3 == IF c2.status # SSD1306_OK THEN c2
              ELSE ssd1306_draw_pixel(c2, U8(xc + x), U8(yc - y), color)
        c4 == IF c3.status # SSD1306_OK THEN c3
              ELSE ssd1306_draw_pixel(c3, U8(xc + y), U8(yc + x), color)
        n  == CircleStep(x, y, err)
    IN  IF c4.status # SSD1306_OK THEN c4
        ELSE IF n.x < 0 THEN CircleLoop(c4, xc, yc, n.x, n.y, n.err, color)
        ELSE Ret(c4, SSD1306_OK)

ssd1306_draw_circle(c, x0, y0, r, color) ==
    CircleLoop(c, x0, y0, -r, 0, 2 - 2 * r, color)

\* The arguments <<x0, y0, x1, y1>> of the four draw_line calls of one
\* iteration of ssd1306_draw_filled_circle, in the order of the calls.
FilledCircleLines(xc, yc, x, y) ==
    << <<U8(xc - x), U8(yc + y), U8(xc + x), U8(yc - y)>>,
       <<U8(xc - y), U8(yc - x), U8(xc + y), U8(yc + x)>>,
       <<U8(xc + x), U8(yc - y), U8(xc - x), U8(yc + y)>>,
       <<U8(xc + y), U8(yc + x), U8(xc - y), U8(yc - x)>> >>

RECURSIVE FilledCircleLoop(_, _, _, _, _, _, _)
FilledCircleLoop(c, xc, yc, x, y, err, color) ==
    LET l  == FilledCircleLines(xc, yc, x, y)
        c1 == ssd1306_draw_line(c, l[1][1], l[1][2], l[1][3], l[1][4], color)
        c2 == IF c1.status # SSD1306_OK THEN c1
              ELSE ssd1306_draw_line(c1, l[2][1], l[2][2], l[2][3], l[2][4],
                                     color)
        c3 == IF c2.status # SSD1306_OK THEN c2
              ELSE ssd1306_draw_line(c2, l[3][1], l[3][2], l[3][3], l[3][4],
                                     color)
        c4 == IF c3.status # SSD1306_OK THEN c3
              ELSE ssd1306_draw_line(c3, l[4][1], l[4][2], l[4][3], l[4][4],
                                     color)
        n  == CircleStep(x, y, err)
    IN  IF c4.status # SSD1306_OK THEN c4
        ELSE IF n.x < 0
        THEN FilledCircleLoop(c4, xc, yc, n.x, n.y, n.err, color)
        ELSE Ret(c4, SSD1306_OK)

ssd1306_draw_filled_circle(c, x0, y0, r, color) ==
    FilledCircleLoop(c, x0, y0, -r, 0, 2 - 2 * r, color)

ssd1306_draw_triangle(c, x1, y1, x2, y2, x3, y3, color) ==
    LET c1 == ssd1306_draw_line(c, x1, y1, x2, y2, color)
        c2 == IF c1.status # SSD1306_OK THEN c1
              ELSE ssd1306_draw_line(c1, x2, y2, x3, y3, color)
    IN  IF c2.status # SSD1306_OK THEN c2
        ELSE ssd1306_draw_line(c2, x3, y3, x1, y1, color)

\* One iteration of the sweep of ssd1306_draw_filled_triangle, its condition
\* included; t holds xinc1, xinc2, yinc1, yinc2, den, numadd, numpixels and
\* the apex (x3, y3).
FilledTriangleStep(st, t) ==
    IF ~(st.curpixel <= t.numpixels)
    THEN [st EXCEPT !.c = Ret(st.c, SSD1306_OK), !.done = TRUE]
    ELSE LET c1   == ssd1306_draw_line(st.c, U8(st.x), U8(st.y), t.x3, t.y3,
                                       t.color)
             num1 == st.num + t.numadd
             wrap == num1 >= t.den
             xa   == IF wrap THEN st.x + t.xinc1 ELSE st.x
             ya   == IF wrap THEN st.y + t.yinc1 ELSE st.y
         IN  IF c1.status # SSD1306_OK
             THEN [st EXCEPT !.c = c1, !.done = TRUE]
             ELSE [c |-> c1, x |-> xa + t.xinc2, y |-> ya + t.yinc2,
                   num |-> IF wrap THEN num1 - t.den ELSE num1,
                   curpixel |-> st.curpixel + 1, done |-> FALSE]

RECURSIVE FilledTriangleRun(_, _, _)
FilledTriangleRun(st, t, n) ==
    IF st.done \/ n = 0 THEN st
    ELSE IF n = 1 THEN FilledTriangleStep(st, t)
    ELSE FilledTriangleRun(FilledTriangleRun(st, t, n \div 2), t,
                           n - (n \div 2))

ssd1306_draw_filled_triangle(c, x1, y1, x2, y2, x3, y3, color) ==
    LET deltax == ABS(x2 - x1)
        deltay == ABS(y2 - y1)
        xinc   == IF x2 >= x1 THEN 1 ELSE -1
        yinc   == IF y2 >= y1 THEN 1 ELSE -1
        inc == IF deltax >= deltay
               THEN [xinc1 |-> 0, xinc2 |-> xinc, yinc1 |-> yinc, yinc2 |-> 0,
                     den |-> deltax, numadd |-> deltay, numpixels |-> deltax]
               ELSE [xinc1 |-> xinc, xinc2 |-> 0, yinc1 |-> 0, yinc2 |-> yinc,
                     den |-> deltay, numadd |-> deltax, numpixels |-> deltay]
        t == [xinc1 |-> inc.xinc1, xinc2 |-> inc.xinc2,
              yinc1 |-> inc.yinc1, yinc2 |-> inc.yinc2,
              den |-> inc.den, numadd |-> inc.numadd,
              numpixels |-> inc.numpixels,
              x3 |-> x3, y3 |-> y3, color |-> color]
        r == FilledTriangleRun([c |-> c, x |-> x1, y |-> y1,
                                num |-> inc.den \div 2, curpixel |-> 0,
                                done |-> FALSE], t, LoopBound)
    IN  IF r.done THEN r.c ELSE Ret(r.c, NoReturn)

\* bitmap is the sequence of the source bytes (bitmap[k] of C is
\* bitmap[k + 1] here); byte carries the shifted source byte across the
\* columns i of row j.
RECURSIVE BitmapLoop(_, _, _, _, _, _, _, _, _)
BitmapLoop(c, x, y, bitmap, w, h, j, i, st) ==
    IF ~(j < h) THEN Ret(c, SSD1306_OK)
    ELSE IF ~(i < w)
    THEN BitmapLoop(c, x, U8(y + 1), bitmap, w, h, j + 1, 0, st)
    ELSE LET byte_width == (w + 7) \div 8
             byte == IF i % 8 # 0 THEN U8(st.byte * 2)
                     ELSE bitmap[j * byte_width + (i \div 8) + 1]
             c1   == IF Bit(byte, 7) = 1
                     THEN ssd1306_draw_pixel(c, U8(x + i), y, st.color)
                     ELSE Ret(c, SSD1306_OK)
         IN  IF c1.status # SSD1306_OK THEN c1
             ELSE BitmapLoop(c1, x, y, bitmap, w, h, j, i + 1,
                             [st EXCEPT !.byte = byte])

ssd1306_draw_bitmap(c, x, y, bitmap, w, h, color) ==
    BitmapLoop(c, x, y, bitmap, w, h, 0, 0, [byte |-> 0, color |-> color])

(***************************************************************************)
(* Flush and initialization functions.                                     *)
(***************************************************************************)
\* &buffer[SSD1306_PXL_WIDTH * p], SSD1306_PXL_WIDTH bytes.
\* Variant: every page read from the start of the buffer.
PageBytes_first_page(buffer, p) ==
    [i \in 1..SSD1306_PXL_WIDTH |-> buffer[i - 1]]

PageBytes(buffer, p) ==
    [i \in 1..SSD1306_PXL_WIDTH |-> buffer[SSD1306_PXL_WIDTH * p + i - 1]]

RECURSIVE UpdateLoop(_, _)
UpdateLoop(c, p) ==
    IF ~(p < SSD1306_NUM_PAGES) THEN Ret(c, SSD1306_OK)
    ELSE LET c1 == ssd1306_data_write(c, PageBytes(c.s.buffer, p))
         IN  IF c1.status # SSD1306_OK THEN c1
             ELSE UpdateLoop(c1, p + 1)

ssd1306_update(c) == UpdateLoop(c, 0)

\* Variant: clear display going on after a failed inversion command.
ssd1306_clear_display_unchecked(c) ==
    LET c1 == ssd1306_set_inversion(c, FALSE)
        c2 == ssd1306_draw_fill(c1, SSD1306_COLOR_BLACK)
    IN  IF c2.status # SSD1306_OK THEN c2
        ELSE ssd1306_update(c2)

ssd1306_clear_display(c) ==
    LET c1 == ssd1306_set_inversion(c, FALSE)
        c2 == IF c1.status # SSD1306_OK THEN c1
              ELSE ssd1306_draw_fill(c1, SSD1306_COLOR_BLACK)
    IN  IF c2.status # SSD1306_OK THEN c2
        ELSE ssd1306_update(c2)

\* Variant: clear buffer as a fill in BLACK, which accounts for inversion.
ssd1306_clear_buffer_as_fill(c) ==
    ssd1306_draw_fill(c, SSD1306_COLOR_BLACK)

\* Variant: clear buffer that also flushes the buffer to the device.
ssd1306_clear_buffer_flush(c) ==
    ssd1306_update([c EXCEPT !.s.buffer =
                                 [i \in 0..(SSD1306_BUFFER_SIZE - 1) |-> 0],
                             !.status = SSD1306_OK])

ssd1306_clear_buffer(c) ==
    [c EXCEPT !.s.buffer = [i \in 0..(SSD1306_BUFFER_SIZE - 1) |-> 0],
              !.status = SSD1306_OK]

\* memset(ssd1306_ptr, 0, sizeof(ssd1306_t))
ZeroSession ==
    [x_pos |-> 0, y_pos |-> 0, inverted |-> FALSE, initialized |-> FALSE,
     scrolling |-> FALSE, i2c_channel |-> 0, i2c_addr |-> 0,
     buffer |-> [i \in 0..(SSD1306_BUFFER_SIZE - 1) |-> 0]]

InitCmdList ==
    <<SSD1306_CMD_CONTROL_BYTE,
      SSD1306_CMD_RESUMETORAM,
      SSD1306_CMD_SET_MEMORY_ADDRESSING_MODE,
      SSD1306_SUBCMD_MEM_ADDR_MODE_HAM,
      SSD1306_CMD_SET_COLUMN_ADDRESS, 0, 127,
      SSD1306_CMD_SET_PAGE_ADDRESS, 0, 7,
      64,
      SSD1306_CMD_SEGMENT_REMAP_COL127_SEG0,
      SSD1306_CMD_SET_MULTIPLEX_RATIO, 63,
      SSD1306_CMD_COM_SCAN_DIRECTION_REMAPPED,
      SSD1306_CMD_SET_DISPLAY_OFFSET, 0,
      SSD1306_CMD_SET_COM_PINS_HW_CONFIG, 18,
      SSD1306_CMD_SET_DIS_CLK_OSC_FREQ, 128,
      SSD1306_CMD_SET_PRECHARGE_PERIOD, 34,
      SSD1306_CMD_SET_VCOMH_DESELECT_LEVEL, 32>>

\* Variant: an initialization that does not clear the display at the end.
ssd1306_init_no_clear(c, i2c_channel, i2c_addr) ==
    LET c0 == [c EXCEPT !.s = [ZeroSession EXCEPT
                                   !.i2c_channel = i2c_channel,
                                   !.i2c_addr    = i2c_addr,
                                   !.initialized = TRUE]]
        c1 == ssd1306_display_off(c0)
        c2 == IF c1.status # SSD1306_OK THEN c1
              ELSE ssd1306_set_inversion(c1, FALSE)
        c3 == IF c2.status # SSD1306_OK THEN c2
              ELSE ssd1306_set_contrast(c2, 255)
        c4 == IF c3.status # SSD1306_OK THEN c3
              ELSE ssd1306_set_scroll_status(c3, FALSE)
        c5 == IF c4.status # SSD1306_OK THEN c4
              ELSE ssd1306_cmd_write_multi(c4, InitCmdList)
    IN  IF c5.status # SSD1306_OK THEN c5
        ELSE ssd1306_display_on(c5)

\* Variant: an initialization that withdraws the initialized flag when one
\* of its steps fails.
ssd1306_init_rollback(c, i2c_channel, i2c_addr) ==
    LET c0 == [c EXCEPT !.s = [ZeroSession EXCEPT
                                   !.i2c_channel = i2c_channel,
                                   !.i2c_addr    = i2c_addr,
                                   !.initialized = TRUE]]
        c1 == ssd1306_display_off(c0)
        c2 == IF c1.status # SSD1306_OK THEN c1
              ELSE ssd1306_set_inversion(c1, FALSE)
        c3 == IF c2.status # SSD1306_OK THEN c2
              ELSE ssd1306_set_contrast(c2, 255)
        c4 == IF c3.status # SSD1306_OK THEN c3
              ELSE ssd1306_set_scroll_status(c3, FALSE)
        c5 == IF c4.status # SSD1306_OK THEN c4
              ELSE ssd1306_cmd_write_multi(c4, InitCmdList)
        c6 == IF c5.status # SSD1306_OK THEN c5
              ELSE ssd1306_display_on(c5)
        c7 == IF c6.status # SSD1306_OK THEN c6
              ELSE ssd1306_clear_display(c6)
    IN  IF c7.status # SSD1306_OK
        THEN [c7 EXCEPT !.s.initialized = FALSE]
        ELSE c7

ssd1306_init(c, i2c_channel, i2c_addr) ==
    LET c0 == [c EXCEPT !.s = [ZeroSession EXCEPT
                                   !.i2c_channel = i2c_channel,
                                   !.i2c_addr    = i2c_addr,
                                   !.initialized = TRUE]]
        c1 == ssd1306_display_off(c0)
        c2 == IF c1.status # SSD1306_OK THEN c1
              ELSE ssd1306_set_inversion(c1, FALSE)
        c3 == IF c2.status # SSD1306_OK THEN c2
              ELSE ssd1306_set_contrast(c2, 255)
        c4 == IF c3.status # SSD1306_OK THEN c3
              ELSE ssd1306_set_scroll_status(c3, FALSE)
        c5 == IF c4.status # SSD1306_OK THEN c4
              ELSE ssd1306_cmd_write_multi(c4, InitCmdList)
        c6 == IF c5.status # SSD1306_OK THEN c5
              ELSE ssd1306_display_on(c5)
    IN  IF c6.status # SSD1306_OK THEN c6
        ELSE ssd1306_clear_display(c6)

(***************************************************************************)
(* The device at the other end of the bus, as ssd1306_update relies on it: *)
(* a display RAM (GDDRAM) of 8 pages of 128 columns in horizontal          *)
(* addressing mode.  Every data byte is stored at the write pointer, which *)
(* then advances over the columns of a page and on to the next page, from  *)
(* the last page back to the first.  The pointer is set to column 0 of     *)
(* page 0 by the address commands of the configuration burst of            *)
(* ssd1306_init, and by nothing else the driver sends.  A transmission     *)
(* that failed does not reach the device.                                  *)
(***************************************************************************)
\* The device after power-on: the content of the RAM is arbitrary.
PowerOnDevice ==
    [mem |-> [i \in 0..(SSD1306_BUFFER_SIZE - 1) |-> (i * 11 + 5) % 256],
     ptr |-> 0]

\* The device after the transmission f.
DeviceFrame(dev, f) ==
    IF f.status # SSD1306_OK THEN dev
    ELSE IF f.data = InitCmdList THEN [dev EXCEPT !.ptr = 0]
    ELSE IF f.data[1] = SSD1306_DATA_CONTROL_BYTE
    THEN LET n == Len(f.data) - 1
         IN  [mem |-> [i \in 0..(SSD1306_BUFFER_SIZE - 1) |->
                          LET k == (i - dev.ptr) % SSD1306_BUFFER_SIZE
                          IN  IF k < n THEN f.data[k + 2] ELSE dev.mem[i]],
              ptr |-> (dev.ptr + n) % SSD1306_BUFFER_SIZE]
    ELSE dev

\* The device after the transmissions i..Len(b) of b.
RECURSIVE DeviceRun(_, _, _)
DeviceRun(dev, b, i) ==
    IF i > Len(b) THEN dev
    ELSE DeviceRun(DeviceFrame(dev, b[i]), b, i + 1)

(***************************************************************************)
(* The state machine: a client calling the public API.                     *)
(***************************************************************************)
\* Argument values the client draws from.
Channels    == {0, 1}
Addresses   == {120}                       \* 0x78
Colors      == {SSD1306_COLOR_BLACK, SSD1306_COLOR_WHITE}
ScrollTypes == {RIGHT_HORIZONTAL_SCROLL, LEFT_HORIZONTAL_SCROLL,
                VERTICAL_RIGHT_HORIZONTAL_SCROLL,
                VERTICAL_LEFT_HORIZONTAL_SCROLL, 4}
\* Pixel coordinates: the corners of the display, a pixel inside, and
\* coordinates outside it in x, in y and in both.
Points      == {<<0, 0>>, <<5, 9>>, <<127, 63>>,
                <<128, 0>>, <<0, 64>>, <<127, 64>>, <<128, 63>>,
                <<255, 255>>}

\* The HAL transmits that may fail in a call making up to n of them on a
\* session routed to `channel` (0: none fails).  Only channel 0 reaches the
\* HAL.
FailPoints(channel, n) == IF channel = 0 THEN 0..n ELSE {0}

\* The session before initialization: a zero-initialized ssd1306_t.
InitSession ==
    /\ ssd1306 = ZeroSession
    /\ pre     = ZeroSession
    /\ op      = [name |-> "none", args |-> <<>>, failAt |-> 0]
    /\ status  = SSD1306_OK
    /\ bus     = <<>>
    /\ gddram  = PowerOnDevice

Init     == InitSession /\ left = MaxCalls
InitCore == InitSession /\ left = MaxCoreCalls

\* The API call `name(args)` returned context r.
Call(name, args, failAt, r) ==
    /\ left > 0
    /\ left'    = left - 1
    /\ pre'     = ssd1306
    /\ ssd1306' = r.s
    /\ status'  = r.status
    /\ bus'     = r.bus
    /\ op'      = [name |-> name, args |-> args, failAt |-> failAt]
    /\ UNCHANGED gddram

CallInit ==
    \E ch \in Channels, a \in Addresses :
      \E f \in FailPoints(ch, 15) :
        Call("init", <<ch, a>>, f, ssd1306_init(Ctx(ssd1306, f), ch, a))

CallDisplayOn ==
    \E f \in FailPoints(ssd1306.i2c_channel, 1) :
        Call("display_on", <<>>, f, ssd1306_display_on(Ctx(ssd1306, f)))

CallDisplayOff ==
    \E f \in FailPoints(ssd1306.i2c_channel, 1) :
        Call("display_off", <<>>, f, ssd1306_display_off(Ctx(ssd1306, f)))

CallSetContrast ==
    \E v \in {127}, f \in FailPoints(ssd1306.i2c_channel, 1) :
        Call("set_contrast", <<v>>, f,
             ssd1306_set_contrast(Ctx(ssd1306, f), v))

CallSetInversion ==
    \E b \in BOOLEAN, f \in FailPoints(ssd1306.i2c_channel, 1) :
        Call("set_inversion", <<b>>, f,
             ssd1306_set_inversion(Ctx(ssd1306, f), b))

CallSetScrollStatus ==
    \E b \in BOOLEAN, f \in FailPoints(ssd1306.i2c_channel, 1) :
        Call("set_scroll_status", <<b>>, f,
             ssd1306_set_scroll_status(Ctx(ssd1306, f), b))

CallScroll ==
    \E t \in ScrollTypes, f \in FailPoints(ssd1306.i2c_channel, 4) :
        Call("scroll", <<t, 1, 6, 7>>, f,
             ssd1306_scroll(Ctx(ssd1306, f), t, 1, 6, 7))

CallGotoXY ==
    \E p \in {<<5, 9>>, <<128, 9>>, <<5, 64>>} :
        Call("goto_xy", p, 0, ssd1306_goto_xy(Ctx(ssd1306, 0), p[1], p[2]))

CallDrawFill ==
    \E color \in Colors \cup {2} :
        Call("draw_fill", <<color>>, 0,
             ssd1306_draw_fill(Ctx(ssd1306, 0), color))

CallDrawPixel ==
    \E p \in Points, color \in Colors :
        Call("draw_pixel", <<p[1], p[2], color>>, 0,
             ssd1306_draw_pixel(Ctx(ssd1306, 0), p[1], p[2], color))

CallDrawChar ==
    \E ch \in {65}, color \in {SSD1306_COLOR_WHITE} :
        Call("draw_char", <<ch, FONT_7X10, color>>, 0,
             ssd1306_draw_char(Ctx(ssd1306, 0), ch, FONT_7X10, color))

CallDrawStr ==
    \E str \in {<<72, 105>>} :
        Call("draw_str", <<str, FONT_7X10, SSD1306_COLOR_WHITE>>, 0,
             ssd1306_draw_str(Ctx(ssd1306, 0), str, FONT_7X10,
                              SSD1306_COLOR_WHITE))

CallDrawInt ==
    \E num \in {0, -255}, base \in {1, 16} :
        Call("draw_int", <<num, base, FONT_7X10, SSD1306_COLOR_WHITE>>, 0,
             ssd1306_draw_int(Ctx(ssd1306, 0), num, base, FONT_7X10,
                              SSD1306_COLOR_WHITE))

CallDrawLine ==
    \E l \in {<<0, 0, 10, 0>>, <<3, 60, 20, 70>>} :
        Call("draw_line", l \o <<SSD1306_COLOR_WHITE>>, 0,
             ssd1306_draw_line(Ctx(ssd1306, 0), l[1], l[2], l[3], l[4],
                               SSD1306_COLOR_WHITE))

CallDrawRect ==
    \E r \in {<<2, 2, 5, 3>>} :
        Call("draw_rect", r \o <<SSD1306_COLOR_WHITE>>, 0,
             ssd1306_draw_rect(Ctx(ssd1306, 0), r[1], r[2], r[3], r[4],
                               SSD1306_COLOR_WHITE))

CallDrawFilledRect ==
    \E r \in {<<120, 60, 10, 2>>} :
        Call("draw_filled_rect", r \o <<SSD1306_COLOR_WHITE>>, 0,
             ssd1306_draw_filled_rect(Ctx(ssd1306, 0), r[1], r[2], r[3],
                                      r[4], SSD1306_COLOR_WHITE))

CallDrawCircle ==
    \E k \in {<<10, 10, 4>>} :
        Call("draw_circle", k \o <<SSD1306_COLOR_WHITE>>, 0,
             ssd1306_draw_circle(Ctx(ssd1306, 0), k[1], k[2], k[3],
                                 SSD1306_COLOR_WHITE))

CallDrawFilledCircle ==
    \E k \in {<<10, 10, 3>>} :
        Call("draw_filled_circle", k \o <<SSD1306_COLOR_WHITE>>, 0,
             ssd1306_draw_filled_circle(Ctx(ssd1306, 0), k[1], k[2], k[3],
                                        SSD1306_COLOR_WHITE))

CallDrawTriangle ==
    \E t \in {<<0, 0, 8, 2, 3, 7>>} :
        Call("draw_triangle", t \o <<SSD1306_COLOR_WHITE>>, 0,
             ssd1306_draw_triangle(Ctx(ssd1306, 0), t[1], t[2], t[3], t[4],
                                   t[5], t[6], SSD1306_COLOR_WHITE))

CallDrawFilledTriangle ==
    \E t \in {<<0, 0, 8, 2, 3, 7>>} :
        Call("draw_filled_triangle", t \o <<SSD1306_COLOR_WHITE>>, 0,
             ssd1306_draw_filled_triangle(Ctx(ssd1306, 0), t[1], t[2], t[3],
                                          t[4], t[5], t[6],
                                          SSD1306_COLOR_WHITE))

CallDrawBitmap ==
    \E bm \in {<<165, 192, 60, 64>>} :
        Call("draw_bitmap", <<124, 63, bm, 10, 2, SSD1306_COLOR_WHITE>>, 0,
             ssd1306_draw_bitmap(Ctx(ssd1306, 0), 124, 63, bm, 10, 2,
                                 SSD1306_COLOR_WHITE))

CallUpdate ==
    \E f \in FailPoints(ssd1306.i2c_channel, 8) :
        Call("update", <<>>, f, ssd1306_update(Ctx(ssd1306, f)))

CallClearDisplay ==
    \E f \in FailPoints(ssd1306.i2c_channel, 9) :
        Call("clear_display", <<>>, f,
             ssd1306_clear_display(Ctx(ssd1306, f)))

CallClearBuffer ==
    Call("clear_buffer", <<>>, 0, ssd1306_clear_buffer(Ctx(ssd1306, 0)))

\* Any sequence of calls of the whole public API.
Next ==
    \/ CallInit
    \/ CallDisplayOn
    \/ CallDisplayOff
    \/ CallSetContrast
    \/ CallSetInversion
    \/ CallSetScrollStatus
    \/ CallScroll
    \/ CallGotoXY
    \/ CallDrawFill
    \/ CallDrawPixel
    \/ CallDrawChar
    \/ CallDrawStr
    \/ CallDrawInt
    \/ CallDrawLine
    \/ CallDrawRect
    \/ CallDrawFilledRect
    \/ CallDrawCircle
    \/ CallDrawFilledCircle
    \/ CallDrawTriangle
    \/ CallDrawFilledTriangle
    \/ CallDrawBitmap
    \/ CallUpdate
    \/ CallClearDisplay
    \/ CallClearBuffer

Spec == Init /\ [][Next]_vars

\* Longer sequences of calls of the core operations: initialization, the
\* hardware-affecting calls, the flush, and the pixel-level drawing calls.
NextCore ==
    \/ CallInit
    \/ CallDisplayOn
    \/ CallDisplayOff
    \/ CallSetContrast
    \/ CallSetInversion
    \/ CallSetScrollStatus
    \/ CallScroll
    \/ CallGotoXY
    \/ CallDrawFill
    \/ CallDrawPixel
    \/ CallUpdate
    \/ CallClearDisplay
    \/ CallClearBuffer

SpecCore == InitCore /\ [][NextCore]_vars

(***************************************************************************)
(* Single calls.  One API call with arguments drawn from the sets below,   *)
(* on a session drawn from UnitSessions: the sessions a client can have    *)
(* reached, never initialized or initialized, with both inversion states   *)
(* and several buffer contents.                                            *)
(***************************************************************************)
BlankBuffer   == [i \in 0..(SSD1306_BUFFER_SIZE - 1) |-> 0]
FullBuffer    == [i \in 0..(SSD1306_BUFFER_SIZE - 1) |-> 255]
PatternBuffer == [i \in 0..(SSD1306_BUFFER_SIZE - 1) |-> (i * 7 + 3) % 256]

\* An initialized session on channel 0 with the cursor at (5, 9).
ReadySession ==
    [ZeroSession EXCEPT !.initialized = TRUE, !.i2c_channel = 0,
                        !.i2c_addr = 120, !.x_pos = 5, !.y_pos = 9]

\* A session whose cursor was moved to where a 7x10 cell ends on the last
\* column and the last row of the display.
EdgeSession ==
    [ReadySession EXCEPT !.x_pos = 121, !.y_pos = 54,
                         !.buffer = PatternBuffer]

UnitSessions ==
    {ZeroSession, [ZeroSession EXCEPT !.buffer = PatternBuffer], EdgeSession}
    \cup {[ReadySession EXCEPT !.inverted = inv, !.buffer = buf] :
              inv \in BOOLEAN,
              buf \in {BlankBuffer, FullBuffer, PatternBuffer}}

\* uint8_t coordinates: inside the display, on its edges, beyond them.
UnitXs == {0, 5, 127, 128, 200, 255}
UnitYs == {0, 9, 63, 64, 200, 255}

\* Colors of ssd1306_color_t and two values outside the enumeration.
UnitColors == {SSD1306_COLOR_BLACK, SSD1306_COLOR_WHITE, 2, 255}

\* int32_t numbers and uint8_t bases, supported and not.
UnitNums  == {0, 7, -7, 255, -255, 1234, 2147483647, INT32_MIN}
UnitBases == {0, 1, 2, 10, 16, 32, 33, 255}

\* Endpoints inside the display.
UnitEnds == {<<0, 0>>, <<10, 0>>, <<0, 7>>, <<5, 9>>, <<20, 40>>,
             <<100, 3>>, <<127, 63>>, <<127, 0>>}

\* Rectangles (x, y, w, h) with x + w < 128 and y + h < 64, and rectangles
\* that leave the display.
UnitRects ==
    {<<x, y, w, h>> : x \in {0, 2, 100}, y \in {0, 2, 40},
                      w \in {0, 1, 5, 27}, h \in {0, 1, 3, 23}}
    \cup {<<120, 60, 10, 2>>, <<120, 2, 200, 3>>}

InitUnit ==
    /\ ssd1306 \in UnitSessions
    /\ pre     = ssd1306
    /\ op      = [name |-> "none", args |-> <<>>, failAt |-> 0]
    /\ status  = SSD1306_OK
    /\ bus     = <<>>
    /\ left    = MaxCalls
    /\ gddram  = PowerOnDevice

\* The one call of the behavior: `name(args)` returned context r.
Once(name, args, r) ==
    /\ op.name  = "none"
    /\ pre'     = ssd1306
    /\ ssd1306' = r.s
    /\ status'  = r.status
    /\ bus'     = r.bus
    /\ op'      = [name |-> name, args |-> args, failAt |-> 0]
    /\ UNCHANGED <<left, gddram>>

UnitGotoXY ==
    \E x \in UnitXs, y \in UnitYs :
        Once("goto_xy", <<x, y>>, ssd1306_goto_xy(Ctx(ssd1306, 0), x, y))

UnitDrawFill ==
    \E color \in UnitColors :
        Once("draw_fill", <<color>>,
             ssd1306_draw_fill(Ctx(ssd1306, 0), color))

UnitDrawPixel ==
    \E x \in UnitXs, y \in UnitYs, color \in UnitColors :
        Once("draw_pixel", <<x, y, color>>,
             ssd1306_draw_pixel(Ctx(ssd1306, 0), x, y, color))

UnitDrawInt ==
    \E num \in UnitNums, base \in UnitBases :
        Once("draw_int", <<num, base, FONT_7X10, SSD1306_COLOR_WHITE>>,
             ssd1306_draw_int(Ctx(ssd1306, 0), num, base, FONT_7X10,
                              SSD1306_COLOR_WHITE))

UnitDrawLine ==
    \E a \in UnitEnds, b \in UnitEnds :
        Once("draw_line", a \o b \o <<SSD1306_COLOR_WHITE>>,
             ssd1306_draw_line(Ctx(ssd1306, 0), a[1], a[2], b[1], b[2],
                               SSD1306_COLOR_WHITE))

UnitDrawRect ==
    \E r \in UnitRects :
        Once("draw_rect", r \o <<SSD1306_COLOR_WHITE>>,
             ssd1306_draw_rect(Ctx(ssd1306, 0), r[1], r[2], r[3], r[4],
                               SSD1306_COLOR_WHITE))

UnitClearBuffer ==
    Once("clear_buffer", <<>>, ssd1306_clear_buffer(Ctx(ssd1306, 0)))

\* Payload sizes handed to ssd1306_data_write, and the payload of a size.
UnitSizes == {0, 1, 2, 127, 128, 129, 130, 255}

Payload(n) == [i \in 1..n |-> (i * 5 + 1) % 256]

UnitDataWrite ==
    \E n \in UnitSizes :
        Once("data_write", <<n>>,
             ssd1306_data_write(Ctx(ssd1306, 0), Payload(n)))

\* One call during which the HAL transmit number failAt fails (0: none).
OnceFailing(name, args, failAt, r) ==
    /\ op.name  = "none"
    /\ pre'     = ssd1306
    /\ ssd1306' = r.s
    /\ status'  = r.status
    /\ bus'     = r.bus
    /\ op'      = [name |-> name, args |-> args, failAt |-> failAt]
    /\ UNCHANGED <<left, gddram>>

UnitClearDisplay ==
    \E failAt \in 0..9 :
        OnceFailing("clear_display", <<>>, failAt,
                    ssd1306_clear_display(Ctx(ssd1306, failAt)))

\* Filled rectangles <<x, y, w, h>>, the largest height included.
UnitFilledRects == {<<5, 9, 3, 2>>, <<2, 2, 1, 0>>, <<120, 60, 10, 2>>,
                    <<0, 0, 0, 254>>, <<0, 0, 0, 255>>, <<7, 3, 1, 255>>}

UnitDrawFilledRect ==
    \E r \in UnitFilledRects :
        Once("draw_filled_rect", r \o <<SSD1306_COLOR_WHITE>>,
             ssd1306_draw_filled_rect(Ctx(ssd1306, 0), r[1], r[2], r[3],
                                      r[4], SSD1306_COLOR_WHITE))

\* Characters, fonts and colors of single draw_char calls.
UnitChars == {32, 65, 126}
UnitFonts == {FONT_7X10, FONT_11X18, FONT_16X26}

UnitDrawChar ==
    \E ch \in UnitChars, font_name \in UnitFonts, color \in Colors :
        Once("draw_char", <<ch, font_name, color>>,
             ssd1306_draw_char(Ctx(ssd1306, 0), ch, font_name, color))

\* Sizes and control bytes of the sequences handed to the Arduino transport.
UnitWireSizes == 0..130
UnitControlBytes == {SSD1306_CMD_CONTROL_BYTE, SSD1306_DATA_CONTROL_BYTE}

UnitI2cWriteArduino ==
    \E channel \in Channels, n \in UnitWireSizes, cb \in UnitControlBytes :
        Once("i2c_write_arduino", <<channel, 120, cb, n>>,
             arduino_ssd1306_i2c_write(
                 Ctx(ssd1306, 0), channel, 120,
                 IF n = 0 THEN <<>> ELSE <<cb>> \o Payload(n - 1)))

\* Filled circles <<x0, y0, r>>.
UnitCircles == {<<10, 10, 1>>, <<10, 10, 2>>, <<2, 3, 4>>, <<64, 32, 5>>}

UnitDrawFilledCircle ==
    \E k \in UnitCircles :
        Once("draw_filled_circle", k \o <<SSD1306_COLOR_WHITE>>,
             ssd1306_draw_filled_circle(Ctx(ssd1306, 0), k[1], k[2], k[3],
                                        SSD1306_COLOR_WHITE))

NextUnit ==
    \/ UnitGotoXY
    \/ UnitDrawFill
    \/ UnitDrawPixel
    \/ UnitDrawInt
    \/ UnitDrawLine
    \/ UnitDrawRect
    \/ UnitClearBuffer
    \/ UnitDataWrite
    \/ UnitClearDisplay
    \/ UnitDrawFilledRect
    \/ UnitDrawChar
    \/ UnitI2cWriteArduino
    \/ UnitDrawFilledCircle

SpecUnit == InitUnit /\ [][NextUnit]_vars

(***************************************************************************)
(* The driver and the device.  The behaviors start when ssd1306_init has   *)
(* returned SSD1306_OK on a device just powered on; the client then makes  *)
(* draw, control and update calls, any transmission of which may fail.     *)
(***************************************************************************)
InitDevice ==
    LET r == ssd1306_init(Ctx(ZeroSession, 0), 0, 120)
    IN  /\ ssd1306 = r.s
        /\ pre     = ZeroSession
        /\ op      = [name |-> "init", args |-> <<0, 120>>, failAt |-> 0]
        /\ status  = r.status
        /\ bus     = r.bus
        /\ gddram  = DeviceRun(PowerOnDevice, r.bus, 1)
        /\ left    = MaxDeviceCalls

\* The API call `name(args)` returned context r; the device took the
\* transmissions of the call.
DevCall(name, args, failAt, r) ==
    /\ left > 0
    /\ left'    = left - 1
    /\ pre'     = ssd1306
    /\ ssd1306' = r.s
    /\ status'  = r.status
    /\ bus'     = r.bus
    /\ op'      = [name |-> name, args |-> args, failAt |-> failAt]
    /\ gddram'  = DeviceRun(gddram, r.bus, 1)

DevDrawPixel ==
    \E p \in {<<5, 9>>, <<100, 40>>} :
        DevCall("draw_pixel", p \o <<SSD1306_COLOR_WHITE>>, 0,
                ssd1306_draw_pixel(Ctx(ssd1306, 0), p[1], p[2],
                                   SSD1306_COLOR_WHITE))

DevDrawFill ==
    \E color \in Colors :
        DevCall("draw_fill", <<color>>, 0,
                ssd1306_draw_fill(Ctx(ssd1306, 0), color))

DevSetContrast ==
    \E f \in 0..1 :
        DevCall("set_contrast", <<16>>, f,
                ssd1306_set_contrast(Ctx(ssd1306, f), 16))

DevUpdate ==
    \E f \in 0..8 :
        DevCall("update", <<>>, f, ssd1306_update(Ctx(ssd1306, f)))

NextDevice ==
    \/ DevDrawPixel
    \/ DevDrawFill
    \/ DevSetContrast
    \/ DevUpdate

SpecDevice == InitDevice /\ [][NextDevice]_vars

(***************************************************************************)
(* Vocabulary of the properties.                                           *)
(***************************************************************************)
\* Every ssd1306_i2c_write invocation of the last call succeeded.
AllOk == \A i \in 1..Len(bus) : bus[i].status = SSD1306_OK

\* The 128 bytes of page p (0..7) of a buffer, as a sequence.
PageOf(buffer, p) == [i \in 1..128 |-> buffer[128 * p + (i - 1)]]

ZeroPage == [i \in 1..128 |-> 0]

ControlOps == {"display_on", "display_off", "set_contrast", "set_inversion",
               "set_scroll_status", "scroll"}

DrawOps == {"goto_xy", "draw_fill", "draw_pixel", "draw_char", "draw_str",
            "draw_int", "draw_line", "draw_rect", "draw_filled_rect",
            "draw_circle", "draw_filled_circle", "draw_triangle",
            "draw_filled_triangle", "draw_bitmap", "clear_buffer"}

ValidScrollTypes == {0, 1, 2, 3}

(***************************************************************************)
(* C1.  On a session whose initialized flag is false, every public         *)
(* operation other than ssd1306_init returns SSD1306_NOINIT and leaves     *)
(* every byte of the framebuffer unchanged.                                *)
(* Stated for arguments inside the enumerations (scroll type, color).      *)
(* The drawing calls do not test the flag: the statement is violated.      *)
(***************************************************************************)
C1_UninitRejected ==
    (/\ op.name \notin {"none", "init"}
     /\ pre.initialized = FALSE
     /\ op.name = "scroll" => op.args[1] \in ValidScrollTypes
     /\ op.name = "draw_fill" => op.args[1] \in Colors)
        => (status = SSD1306_NOINIT /\ ssd1306.buffer = pre.buffer)

(***************************************************************************)
(* C2.  ssd1306_draw_pixel(x, y, color) with color BLACK or WHITE returns  *)
(* SSD1306_OK; inside the display, bit (y mod 8) of byte                   *)
(* x + (y div 8) * 128 becomes (color = WHITE) XOR inverted and every      *)
(* other bit keeps its value; outside it the buffer is unchanged.          *)
(***************************************************************************)
C2_DrawPixel ==
    op.name = "draw_pixel" =>
        LET x == op.args[1]
            y == op.args[2]
            lit == (op.args[3] = 1) # pre.inverted
        IN  /\ status = SSD1306_OK
            /\ IF x < 128 /\ y < 64
               THEN \A i \in 0..1023, k \in 0..7 :
                        Bit(ssd1306.buffer[i], k) =
                            IF i = x + (y \div 8) * 128 /\ k = y % 8
                            THEN (IF lit THEN 1 ELSE 0)
                            ELSE Bit(pre.buffer[i], k)
               ELSE ssd1306.buffer = pre.buffer

\* An inverted session on which a BLACK pixel inside the display lit a bit.
C2_Witness ==
    /\ op.name = "draw_pixel"
    /\ pre.inverted
    /\ op.args = <<5, 9, 0>>
    /\ pre.buffer[133] = 0
    /\ ssd1306.buffer[133] = 2

(***************************************************************************)
(* C3.  On an initialized session with a transport that always succeeds,   *)
(* ssd1306_update makes exactly 8 transmissions, page 0 to page 7, each of *)
(* 129 bytes: 0x40 followed by the 128 bytes of the page; the session is   *)
(* unchanged.                                                              *)
(***************************************************************************)
C3_Update ==
    (op.name = "update" /\ pre.initialized /\ AllOk) =>
        /\ Len(bus) = 8
        /\ \A p \in 0..7 :
              /\ Len(bus[p + 1].data) = 129
              /\ bus[p + 1].data[1] = 64
              /\ SubSeq(bus[p + 1].data, 2, 129) = PageOf(pre.buffer, p)
        /\ ssd1306 = pre

\* A flush of a buffer with a lit pixel in page 1 and none in page 0.
C3_Witness ==
    /\ op.name = "update"
    /\ pre.initialized
    /\ AllOk
    /\ Len(bus) = 8
    /\ pre.buffer[133] = 2
    /\ pre.buffer[5] = 0

(***************************************************************************)
(* C4.  With a transport that always succeeds, ssd1306_init(channel, addr) *)
(* returns SSD1306_OK after these transmissions, in this order: display    *)
(* off, normal display, contrast 0xFF, deactivate scroll, the              *)
(* configuration burst, display on, normal display, 8 all-zero data        *)
(* frames; afterwards the session is zeroed except initialized = true and  *)
(* the channel and address of the call.                                    *)
(***************************************************************************)
C4_Init ==
    (op.name = "init" /\ AllOk) =>
        /\ status = SSD1306_OK
        /\ Len(bus) = 15
        /\ bus[1].data = <<0, 141, 16, 174>>
        /\ bus[2].data = <<0, 166>>
        /\ bus[3].data = <<0, 129, 255>>
        /\ bus[4].data = <<0, 46>>
        /\ bus[5].data = <<0, 164, 32, 0, 33, 0, 127, 34, 0, 7, 64, 161, 168,
                           63, 200, 211, 0, 218, 18, 213, 128, 217, 34, 219,
                           32>>
        /\ bus[6].data = <<0, 141, 20, 175>>
        /\ bus[7].data = <<0, 166>>
        /\ \A i \in 8..15 : bus[i].data = <<64>> \o ZeroPage
        /\ ssd1306.initialized /\ ~ssd1306.inverted /\ ~ssd1306.scrolling
        /\ ssd1306.x_pos = 0 /\ ssd1306.y_pos = 0
        /\ \A i \in 0..1023 : ssd1306.buffer[i] = 0
        /\ ssd1306.i2c_channel = op.args[1]
        /\ ssd1306.i2c_addr = op.args[2]

\* A successful initialization of a session that held a filled buffer.
C4_Witness ==
    /\ op.name = "init"
    /\ AllOk
    /\ status = SSD1306_OK
    /\ pre.buffer[0] = 255

(***************************************************************************)
(* C5.  If a transmission of ssd1306_init fails, ssd1306_init returns the  *)
(* status the transport returned, makes no transmission after the failing  *)
(* one, and leaves initialized = true.                                     *)
(***************************************************************************)
C5_InitFailure ==
    (op.name = "init" /\ ~AllOk) =>
        /\ \A i \in 1..(Len(bus) - 1) : bus[i].status = SSD1306_OK
        /\ bus[Len(bus)].status # SSD1306_OK
        /\ status = bus[Len(bus)].status
        /\ ssd1306.initialized

\* The initialization fails in the flush of clear display (page 2).
C5_Witness ==
    /\ op.name = "init"
    /\ Len(bus) = 10
    /\ bus[10].status = SSD1306_COMM_ERROR
    /\ status = SSD1306_COMM_ERROR

(***************************************************************************)
(* C6.  Every byte sequence handed to ssd1306_i2c_write has at least 2     *)
(* bytes; it starts with 0x00 when a command operation issues it and with  *)
(* 0x40 when the flush issues it (in clear display the flush follows one   *)
(* command, in init it follows seven).                                     *)
(***************************************************************************)
C6_Framing ==
    \A i \in 1..Len(bus) :
        LET first == bus[i].data[1]
            ncmd  == CASE op.name \in ControlOps    -> Len(bus)
                       [] op.name = "update"        -> 0
                       [] op.name = "clear_display" -> 1
                       [] op.name = "init"          -> 7
                       [] OTHER                     -> 0
        IN  /\ Len(bus[i].data) >= 2
            /\ op.name \in ControlOps \cup {"update", "clear_display", "init"}
            /\ first = IF i <= ncmd THEN 0 ELSE 64
            /\ (first = 64) = (Len(bus[i].data) = 129)

\* A call that issued a command frame and data frames.
C6_Witness ==
    /\ op.name = "clear_display"
    /\ Len(bus) = 9
    /\ AllOk

(***************************************************************************)
(* C7.  As stated: on an initialized session with a succeeding transport   *)
(* each of display_on, display_off, set_contrast, set_inversion,           *)
(* set_scroll_status and scroll (valid type) makes exactly one             *)
(* transmission.  ssd1306_scroll makes more than one.                      *)
(***************************************************************************)
C7_OneBurstEach ==
    (/\ op.name \in ControlOps
     /\ op.name = "scroll" => op.args[1] \in ValidScrollTypes
     /\ pre.initialized
     /\ AllOk)
        => Len(bus) = 1

(***************************************************************************)
(* C7, amended.  On an initialized session with a succeeding transport,    *)
(* display_on, display_off, set_contrast, set_inversion and                *)
(* set_scroll_status make exactly one transmission each; ssd1306_scroll    *)
(* makes four for the horizontal types (the 6-byte setup burst, the        *)
(* commands 0x00 and 0xFF, activate scroll) and three for the vertical     *)
(* types (the setup burst, the command 0x01, activate scroll).             *)
(***************************************************************************)
C7_BurstCounts ==
    (op.name \in ControlOps /\ pre.initialized /\ AllOk) =>
        IF op.name # "scroll" THEN Len(bus) = 1
        ELSE CASE op.args[1] \in {0, 1} ->
                    /\ Len(bus) = 4
                    /\ Len(bus[1].data) = 6
                    /\ bus[2].data = <<0, 0>>
                    /\ bus[3].data = <<0, 255>>
                    /\ bus[4].data = <<0, 47>>
               [] op.args[1] \in {2, 3} ->
                    /\ Len(bus) = 3
                    /\ Len(bus[1].data) = 6
                    /\ bus[2].data = <<0, 1>>
                    /\ bus[3].data = <<0, 47>>
               [] OTHER -> Len(bus) = 0

\* A successful horizontal scroll setup.
C7_Witness ==
    /\ op.name = "scroll"
    /\ op.args[1] = 1
    /\ pre.initialized
    /\ AllOk
    /\ status = SSD1306_OK
    /\ Len(bus) = 4

(***************************************************************************)
(* C8.  The hardware-affecting calls change the session only in the        *)
(* inverted and scrolling flags and only on success: when set_inversion,   *)
(* set_scroll_status or scroll does not return SSD1306_OK both flags keep  *)
(* their values; on success set_inversion(b) sets inverted = b,            *)
(* set_scroll_status(b) sets scrolling = b, scroll sets scrolling = true;  *)
(* the framebuffer and the cursor never change.                            *)
(***************************************************************************)
C8_FlagsOnSuccess ==
    op.name \in ControlOps =>
        /\ ssd1306 = [pre EXCEPT !.inverted  = ssd1306.inverted,
                                 !.scrolling = ssd1306.scrolling]
        /\ ssd1306.inverted =
              IF op.name = "set_inversion" /\ status = SSD1306_OK
              THEN op.args[1] ELSE pre.inverted
        /\ ssd1306.scrolling =
              CASE op.name = "set_scroll_status" /\ status = SSD1306_OK
                       -> op.args[1]
                [] op.name = "scroll" /\ status = SSD1306_OK -> TRUE
                [] OTHER -> pre.scrolling

\* A scroll setup whose last transmission (activate scroll) failed, on a
\* session that was not scrolling.
C8_Witness ==
    /\ op.name = "scroll"
    /\ Len(bus) = 4
    /\ status = SSD1306_COMM_ERROR
    /\ ~pre.scrolling
    /\ ~ssd1306.scrolling

(***************************************************************************)
(* C9.  No framebuffer-only operation (goto_xy, the draw calls,            *)
(* clear_buffer) makes a bus transmission.                                 *)
(***************************************************************************)
C9_DrawingIsLocal == op.name \in DrawOps => bus = <<>>

\* A filled circle drawn into the buffer of an initialized session.
C9_Witness ==
    /\ op.name = "draw_filled_circle"
    /\ pre.initialized
    /\ status = SSD1306_OK
    /\ ssd1306.buffer # pre.buffer

(***************************************************************************)
(* C10.  ssd1306_i2c_write is never invoked for a session whose            *)
(* initialized flag is false: a call other than ssd1306_init on such a     *)
(* session makes no transmission, and display_on, display_off,             *)
(* set_contrast, set_inversion, set_scroll_status, update and              *)
(* clear_display return SSD1306_NOINIT.                                    *)
(***************************************************************************)
C10_NoBusBeforeInit ==
    /\ bus # <<>> => ssd1306.initialized
    /\ (op.name \notin {"none", "init"} /\ ~pre.initialized) =>
          /\ bus = <<>>
          /\ op.name \in {"display_on", "display_off", "set_contrast",
                          "set_inversion", "set_scroll_status", "update",
                          "clear_display"} => status = SSD1306_NOINIT

\* A flush attempted on a session that was drawn into but never initialized.
C10_Witness ==
    /\ op.name = "update"
    /\ ~pre.initialized
    /\ pre.buffer[0] = 255
    /\ status = SSD1306_NOINIT

(***************************************************************************)
(* C11.  ssd1306_goto_xy(x, y) with x >= 128 or y >= 64 returns            *)
(* SSD1306_WRONG_PARAMS and leaves the whole session unchanged; with       *)
(* x < 128 and y < 64 it returns SSD1306_OK, sets the cursor to (x, y) and *)
(* changes nothing else.                                                   *)
(***************************************************************************)
C11_GotoXY ==
    op.name = "goto_xy" =>
        LET x == op.args[1]
            y == op.args[2]
        IN  IF x >= 128 \/ y >= 64
            THEN status = SSD1306_WRONG_PARAMS /\ ssd1306 = pre
            ELSE /\ status = SSD1306_OK
                 /\ ssd1306 = [pre EXCEPT !.x_pos = x, !.y_pos = y]

\* The cursor moved from (5, 9) to the last pixel of the display.
C11_Witness ==
    /\ op.name = "goto_xy"
    /\ op.args = <<127, 63>>
    /\ pre.x_pos = 5 /\ pre.y_pos = 9
    /\ status = SSD1306_OK
    /\ ssd1306.x_pos = 127 /\ ssd1306.y_pos = 63

(***************************************************************************)
(* The signed string of num in a base of 2..32, as character codes: '-'    *)
(* for a negative number, then the digits of |num|, most significant       *)
(* first, 0-9 then A-V.                                                    *)
(***************************************************************************)
DigitChar(d) == IF d > 9 THEN 65 + (d - 10) ELSE 48 + d

RECURSIVE Digits(_, _)
Digits(n, base) ==
    IF n < base THEN <<DigitChar(n)>>
    ELSE Append(Digits(n \div base, base), DigitChar(n % base))

SignedString(num, base) ==
    IF num < 0 THEN <<45>> \o Digits(-num, base) ELSE Digits(num, base)

(***************************************************************************)
(* C12.  For every base in 2..32 and every num, ssd1306_draw_int renders   *)
(* the signed string of num in that base ('-' exactly when num < 0, so     *)
(* -255 in base 16 renders "-FF"; 0 renders "0"): the call has the effect  *)
(* of ssd1306_draw_str on that string.                                     *)
(* The sign is written for base 10 only: the statement is violated.        *)
(***************************************************************************)
C12_SignedString ==
    (op.name = "draw_int" /\ op.args[2] \in 2..32) =>
        LET r == ssd1306_draw_str(Ctx(pre, 0),
                                  SignedString(op.args[1], op.args[2]),
                                  op.args[3], op.args[4])
        IN  status = r.status /\ ssd1306 = r.s

\* The same statement for the numbers that are not negative.
C12_Unsigned ==
    (op.name = "draw_int" /\ op.args[2] \in 2..32 /\ op.args[1] >= 0) =>
        C12_SignedString

(***************************************************************************)
(* C13.  ssd1306_draw_int with base < 2 or base > 32 returns               *)
(* SSD1306_WRONG_PARAMS for every num and leaves the framebuffer and the   *)
(* cursor unchanged.                                                       *)
(***************************************************************************)
C13_BaseRejected ==
    (op.name = "draw_int" /\ (op.args[2] < 2 \/ op.args[2] > 32)) =>
        /\ status = SSD1306_WRONG_PARAMS
        /\ ssd1306.buffer = pre.buffer
        /\ ssd1306.x_pos = pre.x_pos
        /\ ssd1306.y_pos = pre.y_pos

\* Base 33, the first one above the supported range, on an initialized
\* session with a blank buffer.
C13_Witness ==
    /\ op.name = "draw_int"
    /\ op.args[1] = 1234
    /\ op.args[2] = 33
    /\ pre.initialized
    /\ pre.buffer = BlankBuffer
    /\ status = SSD1306_WRONG_PARAMS

(***************************************************************************)
(* C14.  A color other than SSD1306_COLOR_BLACK and SSD1306_COLOR_WHITE is *)
(* rejected: ssd1306_draw_fill, and ssd1306_draw_pixel at coordinates      *)
(* inside the display, return SSD1306_WRONG_PARAMS and leave the           *)
(* framebuffer unchanged, whatever the value of inverted.                  *)
(* On an inverted session ssd1306_draw_pixel negates the color before it   *)
(* tests it: the statement is violated.                                    *)
(***************************************************************************)
C14_ColorRejected ==
    (\/ op.name = "draw_fill" /\ op.args[1] \notin Colors
     \/ /\ op.name = "draw_pixel"
        /\ op.args[1] < 128 /\ op.args[2] < 64
        /\ op.args[3] \notin Colors)
        => (status = SSD1306_WRONG_PARAMS /\ ssd1306.buffer = pre.buffer)

\* The same statement for the sessions that are not inverted and for
\* ssd1306_draw_fill.
C14_NotInverted ==
    (~pre.inverted \/ op.name = "draw_fill") => C14_ColorRejected

(***************************************************************************)
(* C15.  initialized is true at the return of ssd1306_init, whatever its   *)
(* status, and no later operation sets it back to false: a session that    *)
(* was initialized before a call is initialized after it, for every        *)
(* operation, every transport failure and every repeated ssd1306_init.     *)
(***************************************************************************)
C15_InitializedForGood ==
    /\ op.name = "init" => ssd1306.initialized
    /\ pre.initialized => ssd1306.initialized

\* A second ssd1306_init whose first transmission fails.
C15_Witness ==
    /\ op.name = "init"
    /\ pre.initialized
    /\ Len(bus) = 1
    /\ status = SSD1306_COMM_ERROR
    /\ ssd1306.initialized

(***************************************************************************)
(* C16.  After the first ssd1306_init(channel, addr) no later operation,   *)
(* another ssd1306_init with different arguments included, changes         *)
(* i2c_channel or i2c_addr, and every later transmission is addressed to   *)
(* that same (channel, addr).                                              *)
(* ssd1306_init resets the session each time it is called: the statement   *)
(* is violated.                                                            *)
(***************************************************************************)
C16_RouteFixed ==
    pre.initialized =>
        /\ ssd1306.i2c_channel = pre.i2c_channel
        /\ ssd1306.i2c_addr = pre.i2c_addr
        /\ \A i \in 1..Len(bus) :
              /\ bus[i].channel = pre.i2c_channel
              /\ bus[i].addr = pre.i2c_addr

\* The same statement for the operations other than ssd1306_init.
C16_RouteKeptByOthers == op.name # "init" => C16_RouteFixed

(***************************************************************************)
(* Pixels.  Lit(buffer) is the set of the pixels (x, y) of the display     *)
(* whose bit is 1 in the buffer.                                           *)
(***************************************************************************)
Lit(buffer) ==
    {p \in (0..127) \X (0..63) :
        Bit(buffer[p[1] + (p[2] \div 8) * 128], p[2] % 8) = 1}

Max(a, b) == IF a >= b THEN a ELSE b
Min(a, b) == IF a <= b THEN a ELSE b
Dist(a, b) == IF a >= b THEN a - b ELSE b - a

InDisplay(x, y) == x \in 0..127 /\ y \in 0..63

(***************************************************************************)
(* C17.  For end points (x0, y0), (x1, y1) inside the display,             *)
(* ssd1306_draw_line in WHITE on an all-black, non-inverted buffer         *)
(* terminates, returns SSD1306_OK and sets exactly                         *)
(* max(|x1 - x0|, |y1 - y0|) + 1 pixels, both end points among them; a     *)
(* horizontal line sets exactly the pixels (x, y) with x between x0 and    *)
(* x1, a degenerate line exactly one pixel.                                *)
(***************************************************************************)
C17_Line ==
    (/\ op.name = "draw_line"
     /\ InDisplay(op.args[1], op.args[2])
     /\ InDisplay(op.args[3], op.args[4])
     /\ op.args[5] = SSD1306_COLOR_WHITE
     /\ pre.buffer = BlankBuffer
     /\ ~pre.inverted) =>
        LET x0 == op.args[1]
            y0 == op.args[2]
            x1 == op.args[3]
            y1 == op.args[4]
            lit == Lit(ssd1306.buffer)
        IN  /\ status = SSD1306_OK
            /\ Cardinality(lit) = Max(Dist(x0, x1), Dist(y0, y1)) + 1
            /\ <<x0, y0>> \in lit
            /\ <<x1, y1>> \in lit
            /\ y0 = y1 =>
                  lit = {<<x, y0>> : x \in Min(x0, x1)..Max(x0, x1)}

\* A shallow line drawn right to left and downwards: 96 pixels.
C17_Witness ==
    /\ op.name = "draw_line"
    /\ op.args = <<100, 3, 5, 9, SSD1306_COLOR_WHITE>>
    /\ pre.buffer = BlankBuffer
    /\ ~pre.inverted
    /\ status = SSD1306_OK
    /\ Cardinality(Lit(ssd1306.buffer)) = 96

(***************************************************************************)
(* C18.  For x + w < 128 and y + h < 64, ssd1306_draw_rect in WHITE on an  *)
(* all-black, non-inverted buffer sets exactly the pixels (px, py) with    *)
(* x <= px <= x + w, y <= py <= y + h that lie on one of the four sides:   *)
(* px in {x, x + w} or py in {y, y + h}.                                   *)
(***************************************************************************)
C18_Rect ==
    (/\ op.name = "draw_rect"
     /\ op.args[1] + op.args[3] < 128
     /\ op.args[2] + op.args[4] < 64
     /\ op.args[5] = SSD1306_COLOR_WHITE
     /\ pre.buffer = BlankBuffer
     /\ ~pre.inverted) =>
        LET x == op.args[1]
            y == op.args[2]
            w == op.args[3]
            h == op.args[4]
        IN  /\ status = SSD1306_OK
            /\ Lit(ssd1306.buffer) =
                  {p \in (x..(x + w)) \X (y..(y + h)) :
                      p[1] \in {x, x + w} \/ p[2] \in {y, y + h}}

\* The rectangle (2, 2, 5, 3): 16 pixels on its sides, none inside.
C18_Witness ==
    /\ op.name = "draw_rect"
    /\ op.args = <<2, 2, 5, 3, SSD1306_COLOR_WHITE>>
    /\ pre.buffer = BlankBuffer
    /\ ~pre.inverted
    /\ Cardinality(Lit(ssd1306.buffer)) = 16
    /\ <<7, 5>> \in Lit(ssd1306.buffer)
    /\ <<3, 3>> \notin Lit(ssd1306.buffer)

\* The buffer of session s after fill(a) then fill(b).
FillTwice(s, a, b) ==
    ssd1306_draw_fill(Ctx(ssd1306_draw_fill(Ctx(s, 0), a).s, 0), b).s.buffer

(***************************************************************************)
(* C19.  ssd1306_draw_fill(color) with color BLACK or WHITE sets every one *)
(* of the 1024 buffer bytes to 0xFF when (color = WHITE) differs from      *)
(* inverted and to 0x00 otherwise, whatever the buffer held; and           *)
(* fill(BLACK) then fill(WHITE) leaves the bitwise complement of the       *)
(* buffer left by fill(WHITE) then fill(BLACK), in both inversion states.  *)
(***************************************************************************)
C19_Fill ==
    (op.name = "draw_fill" /\ op.args[1] \in Colors) =>
        /\ status = SSD1306_OK
        /\ \A i \in 0..1023 :
              ssd1306.buffer[i] =
                  IF (op.args[1] = SSD1306_COLOR_WHITE) # pre.inverted
                  THEN 255 ELSE 0
        /\ LET bw == FillTwice(pre, SSD1306_COLOR_BLACK, SSD1306_COLOR_WHITE)
               wb == FillTwice(pre, SSD1306_COLOR_WHITE, SSD1306_COLOR_BLACK)
           IN  \A i \in 0..1023 : bw[i] = 255 - wb[i]

\* fill(WHITE) on an inverted session whose buffer held a pattern: every
\* byte is 0x00.
C19_Witness ==
    /\ op.name = "draw_fill"
    /\ op.args = <<SSD1306_COLOR_WHITE>>
    /\ pre.inverted
    /\ pre.buffer = PatternBuffer
    /\ ssd1306.buffer = BlankBuffer

(***************************************************************************)
(* C20.  ssd1306_clear_buffer sets every buffer byte to 0x00 whatever the  *)
(* value of inverted (ssd1306_draw_fill(BLACK) yields 0xFF when inverted), *)
(* changes no other field of the session and sends nothing; a second call  *)
(* right after the first leaves the session as the first left it.          *)
(***************************************************************************)
C20_ClearBuffer ==
    op.name = "clear_buffer" =>
        /\ \A i \in 0..1023 : ssd1306.buffer[i] = 0
        /\ ssd1306 = [pre EXCEPT !.buffer = ssd1306.buffer]
        /\ bus = <<>>
        /\ ssd1306_clear_buffer(Ctx(ssd1306, 0)).s = ssd1306
        /\ ssd1306_clear_buffer(Ctx(ssd1306, 0)).bus = <<>>
        /\ pre.inverted =>
              \A i \in 0..1023 :
                  ssd1306_draw_fill(Ctx(pre, 0),
                                    SSD1306_COLOR_BLACK).s.buffer[i] = 255

\* An inverted session with every byte 0xFF, cleared to 0x00.
C20_Witness ==
    /\ op.name = "clear_buffer"
    /\ pre.inverted
    /\ pre.buffer = FullBuffer
    /\ ssd1306.buffer = BlankBuffer
    /\ ssd1306.inverted

(***************************************************************************)
(* C21.  ssd1306_data_write on an initialized session accepts every        *)
(* payload of 0 to 128 bytes, 128 included: it makes one transmission of   *)
(* payload size + 1 bytes, 0x40 followed by the payload, which fits the    *)
(* 129-byte scratch buffer.  It rejects every larger payload with          *)
(* SSD1306_WRONG_PARAMS without calling the transport.                     *)
(***************************************************************************)
C21_DataWrite ==
    (op.name = "data_write" /\ pre.initialized) =>
        LET n == op.args[1]
        IN  IF n <= 128
            THEN /\ status = SSD1306_OK
                 /\ Len(bus) = 1
                 /\ Len(bus[1].data) = n + 1
                 /\ Len(bus[1].data) <= SSD1306_DATA_WRITE_BUFFER_SIZE
                 /\ bus[1].data = <<64>> \o Payload(n)
                 /\ ssd1306 = pre
            ELSE /\ status = SSD1306_WRONG_PARAMS
                 /\ bus = <<>>
                 /\ ssd1306 = pre

\* A full display row was accepted.
C21_Witness ==
    /\ op.name = "data_write"
    /\ pre.initialized
    /\ op.args[1] = 128
    /\ status = SSD1306_OK
    /\ Len(bus) = 1
    /\ Len(bus[1].data) = 129

(***************************************************************************)
(* C22.  ssd1306_clear_display runs set_inversion(false), draw_fill(BLACK) *)
(* and update in this order and stops at the first failing step, returning *)
(* its status.  If the inversion command fails, the inverted flag and the  *)
(* framebuffer are unchanged and no data frame is sent.  If data frame p   *)
(* fails, frames p+1..7 are not sent.  On success inverted is false, every *)
(* buffer byte is 0x00 and exactly one command frame followed by 8         *)
(* all-zero data frames were transmitted.                                  *)
(***************************************************************************)
C22_ClearDisplay ==
    (op.name = "clear_display" /\ pre.initialized) =>
        /\ Len(bus) >= 1
        /\ bus[1].data = <<SSD1306_CMD_CONTROL_BYTE, SSD1306_CMD_NORMALDISPLAY>>
        /\ \A i \in 2..Len(bus) :
               bus[i].data = <<SSD1306_DATA_CONTROL_BYTE>> \o ZeroPage
        /\ \A i \in 1..Len(bus) :
               bus[i].status = SSD1306_OK <=> i # op.failAt
        /\ IF op.failAt = 0
           THEN /\ status = SSD1306_OK
                /\ Len(bus) = 9
                /\ ssd1306 = [pre EXCEPT !.inverted = FALSE,
                                         !.buffer = BlankBuffer]
           ELSE /\ status = SSD1306_COMM_ERROR
                /\ Len(bus) = op.failAt
                /\ op.failAt = 1 => ssd1306 = pre

\* The inversion command failed on an inverted session with a lit buffer.
C22_Witness ==
    /\ op.name = "clear_display"
    /\ op.failAt = 1
    /\ pre.initialized
    /\ pre.inverted
    /\ pre.buffer = PatternBuffer
    /\ status = SSD1306_COMM_ERROR
    /\ ssd1306 = pre

\* The context after the horizontal lines i..n-1 of a filled rectangle,
\* each drawn if the one before it returned SSD1306_OK.
RECURSIVE HLines(_, _, _, _, _, _, _)
HLines(c, x, y, w, color, i, n) ==
    IF c.status # SSD1306_OK \/ i >= n THEN c
    ELSE IF n = i + 1
    THEN ssd1306_draw_line(c, x, U8(y + i), U8(x + w), U8(y + i), color)
    ELSE LET m == (i + n) \div 2
         IN  HLines(HLines(c, x, y, w, color, i, m), x, y, w, color, m, n)

(***************************************************************************)
(* C23.  For every h in 0..255 and any x, y, w, ssd1306_draw_filled_rect   *)
(* terminates after exactly h + 1 calls of draw_line, the i-th being the   *)
(* horizontal line from (x, y+i) to (x+w, y+i), and returns SSD1306_OK.    *)
(* With h = 255 the condition i <= h of the 8-bit counter never fails:     *)
(* the statement is violated.                                              *)
(***************************************************************************)
C23_FilledRectReturns ==
    (op.name = "draw_filled_rect") =>
        /\ status = SSD1306_OK
        /\ ssd1306 = HLines(Ctx(pre, 0), op.args[1], op.args[2], op.args[3],
                            op.args[5], 0, op.args[4] + 1).s

\* Bit j, counted from the most significant bit of the storage unit, of
\* glyph row i of character ch.
GlyphBit(font_name, ch, i, j) ==
    LET font == get_font_ptr(font_name)
        unit == font_map(font_name, (ch - 32) * font.font_height + i)
    IN  Bit(unit, (IF font.font_width <= 8 THEN 7 ELSE 15) - j)

\* The bit of pixel (x, y) in a framebuffer.
PixelAt(buffer, x, y) == Bit(buffer[x + (y \div 8) * 128], y % 8)

(***************************************************************************)
(* C24.  ssd1306_draw_char with a font of width W and height H, cursor     *)
(* (cx, cy) with cx + W <= 128 and cy + H <= 64, and color c BLACK or      *)
(* WHITE overwrites the whole W x H cell: pixel (cx+j, cy+i) ends with     *)
(* logical color c if bit j, from the most significant bit, of glyph row   *)
(* (ch - 0x20) * H + i is set, and with the inverse of c otherwise,        *)
(* whatever the cell held before.  No pixel outside the cell changes, and  *)
(* afterwards the cursor is (cx + W, cy).                                  *)
(***************************************************************************)
C24_DrawChar ==
    LET font == get_font_ptr(op.args[2])
        W    == font.font_width
        H    == font.font_height
        cx   == pre.x_pos
        cy   == pre.y_pos
        c    == op.args[3]
    IN  (/\ op.name = "draw_char"
         /\ cx + W <= 128
         /\ cy + H <= 64
         /\ c \in {SSD1306_COLOR_BLACK, SSD1306_COLOR_WHITE}) =>
            /\ status = SSD1306_OK
            /\ \A x \in 0..127, y \in 0..63 :
                   PixelAt(ssd1306.buffer, x, y) =
                       IF x \in cx..(cx + W - 1) /\ y \in cy..(cy + H - 1)
                       THEN LET pc == IF GlyphBit(op.args[2], op.args[1],
                                                  y - cy, x - cx) = 1
                                      THEN c ELSE NotColor(c)
                            IN  IF (pc = SSD1306_COLOR_WHITE) # pre.inverted
                                THEN 1 ELSE 0
                       ELSE PixelAt(pre.buffer, x, y)
            /\ ssd1306 = [pre EXCEPT !.x_pos = cx + W,
                                     !.buffer = ssd1306.buffer]

\* A 7x10 glyph drawn over a patterned buffer in the last cell of the
\* display: the cursor ends on column 128.
C24_Witness ==
    /\ op.name = "draw_char"
    /\ op.args = <<65, FONT_7X10, SSD1306_COLOR_WHITE>>
    /\ pre = EdgeSession
    /\ status = SSD1306_OK
    /\ ssd1306.x_pos = 128
    /\ ssd1306.buffer # pre.buffer

\* The bytes after the control byte of the bursts i..Len(b), in order.
RECURSIVE BurstPayloads(_, _)
BurstPayloads(b, i) ==
    IF i > Len(b) THEN <<>>
    ELSE Tail(b[i].data) \o BurstPayloads(b, i + 1)

(***************************************************************************)
(* C25.  The Arduino transport i2c_write_arduino(addr, data, n), for every *)
(* n in 2..129, terminates and splits the sequence into ceil((n - 1) / 31) *)
(* bus bursts of at most 32 bytes, each beginning with the control byte    *)
(* data[0]; the payload bytes of the bursts, concatenated in order, are    *)
(* data[1..n-1], none lost and none repeated.                              *)
(***************************************************************************)
C25_WireBursts ==
    (/\ op.name = "i2c_write_arduino"
     /\ op.args[1] = 0
     /\ op.args[4] \in 2..129) =>
        LET n == op.args[4]
        IN  /\ status = SSD1306_OK
            /\ Len(bus) = (n - 1 + 30) \div 31
            /\ \A i \in 1..Len(bus) :
                   /\ Len(bus[i].data) \in 2..32
                   /\ bus[i].data[1] = op.args[3]
                   /\ bus[i].addr = op.args[2]
            /\ BurstPayloads(bus, 1) = Payload(n - 1)
            /\ ssd1306 = pre

\* A full data frame of 129 bytes went out in five bursts, the last one
\* carrying the four bytes left over.
C25_Witness ==
    /\ op.name = "i2c_write_arduino"
    /\ op.args = <<0, 120, SSD1306_DATA_CONTROL_BYTE, 129>>
    /\ Len(bus) = 5
    /\ Len(bus[1].data) = 32
    /\ Len(bus[5].data) = 5

\* The states <<x, y>> of the midpoint iteration, from (x, y, err) on.
RECURSIVE CircleStates(_, _, _)
CircleStates(x, y, err) ==
    LET n == CircleStep(x, y, err)
    IN  <<<<x, y>>>> \o (IF n.x < 0 THEN CircleStates(n.x, n.y, n.err)
                         ELSE <<>>)

(***************************************************************************)
(* C26.  In ssd1306_draw_filled_circle, every draw_line call of every step *)
(* of the midpoint iteration (state (x, y, err) starting at (-r, 0)) is a  *)
(* horizontal or a vertical segment: its end points share the same y or    *)
(* the same x coordinate, for every centre and every radius r >= 1.        *)
(* The calls join diametrically opposite points of the circle: the         *)
(* statement is violated from the second step of a radius of 2 on.         *)
(***************************************************************************)
C26_AxisParallelLines ==
    (op.name = "draw_filled_circle" /\ op.args[3] >= 1) =>
        LET r  == op.args[3]
            sts == CircleStates(-r, 0, 2 - 2 * r)
        IN  \A i \in 1..Len(sts) :
                LET l == FilledCircleLines(op.args[1], op.args[2],
                                           sts[i][1], sts[i][2])
                IN  \A j \in 1..4 : l[j][1] = l[j][3] \/ l[j][2] = l[j][4]

(***************************************************************************)
(* C27.  With the device modelled as GDDRAM with a horizontal-addressing   *)
(* write pointer that advances over columns 0..127 and pages 0..7 and is   *)
(* reset only by the configuration burst of init: after a successful       *)
(* ssd1306_init and any sequence of draw, control and update calls over a  *)
(* transport that may fail on any transmission, whenever ssd1306_update    *)
(* returns SSD1306_OK the GDDRAM equals the framebuffer, page p of the     *)
(* buffer at device page p, also when an earlier update was aborted.       *)
(* An aborted update leaves the write pointer on the page that failed and  *)
(* the next update starts there: the statement is violated.                *)
(***************************************************************************)
C27_DeviceMirrorsBuffer ==
    (op.name = "update" /\ status = SSD1306_OK) =>
        gddram.mem = ssd1306.buffer

\* (px, py) lies on the perimeter of the rectangle [x, x+w] x [y, y+h],
\* the corners computed in unbounded integers.
OnPerimeter(px, py, x, y, w, h) ==
    \/ px \in x..(x + w) /\ py \in {y, y + h}
    \/ py \in y..(y + h) /\ px \in {x, x + w}

(***************************************************************************)
(* C28.  Shapes that extend past the display are clipped, not wrapped:     *)
(* for every x, y, w, h in 0..255, ssd1306_draw_rect changes no pixel of   *)
(* the framebuffer other than those on the perimeter of the rectangle      *)
(* [x, x+w] x [y, y+h], computed in unbounded integers, that lie inside    *)
(* the 128x64 display; the 8-bit truncation of the corner coordinates      *)
(* passed to draw_line sets no pixel outside that perimeter.               *)
(* With x + w > 255 the right corner wraps to the left of x and the        *)
(* horizontal edges are drawn between the two: the statement is violated.  *)
(***************************************************************************)
C28_RectClipped ==
    (op.name = "draw_rect") =>
        \A px \in 0..127, py \in 0..63 :
            PixelAt(ssd1306.buffer, px, py) # PixelAt(pre.buffer, px, py)
                => OnPerimeter(px, py, op.args[1], op.args[2], op.args[3],
                               op.args[4])

IntWritten(num, base) ==
    Len(DigitLoop(Abs32(num), base, <<>>))
        + (IF num < 0 /\ base = 10 THEN 1 ELSE 0) + 1

\* The characters '0'..'9' and 'A'..'V'.
DigitChars == (48..57) \cup (65..86)

(***************************************************************************)
(* C30.  For every 32-bit signed num, INT32_MIN included (|num| computed   *)
(* in 32-bit two's-complement arithmetic), and every base in 2..32, the    *)
(* conversion loop of ssd1306_draw_int writes at most 32 characters,       *)
(* counting the optional '-' and the terminating NUL, so it never writes   *)
(* past its 32-byte str_buf, and every digit character it produces lies in *)
(* '0'..'9' or 'A'..'V'.                                                   *)
(* ABS(INT32_MIN) is INT32_MIN: the remainders are negative or zero, and   *)
(* in base 2 there are 32 of them: the statement is violated.              *)
(***************************************************************************)
C30_IntFitsBuffer ==
    (/\ op.name = "draw_int"
     /\ op.args[2] \in 2..32
     /\ op.args[1] # 0) =>
        LET digits == DigitLoop(Abs32(op.args[1]), op.args[2], <<>>)
        IN  /\ IntWritten(op.args[1], op.args[2]) <= 32
            /\ \A k \in 1..Len(digits) : digits[k] \in DigitChars

=============================================================================
